---------------------------- MODULE Spec2Model ----------------------------
(***************************************************************************)
(* Model of the measurement and normalization engine of Mizan:             *)
(*   ArabicNormalizer   (infrastructure/text/normalizer.py)                *)
(*   LetterCounter      (domain/services/letter_counter.py)                *)
(*   AnalyzerService    (application/services/analyzer_service.py)         *)
(*   AbjadCalculator    (domain/services/abjad_calculator.py)              *)
(*   AbjadValue         (domain/value_objects/abjad_value.py)              *)
(*   WordCounter        (domain/services/word_counter.py)                  *)
(*   TextChecksum       (domain/value_objects/checksum.py)                 *)
(*   IntegrityGuard     (infrastructure/integrity/guard.py)                *)
(*   verify_integrity   (infrastructure/persistence/repositories.py)       *)
(*                                                                         *)
(* A text is a sequence of Unicode code points (decimal).  A Python str of *)
(* an enumeration whose members are ordered with <, >= is a sequence of    *)
(* code points too, so that the comparison is the one Python makes.        *)
(***************************************************************************)
EXTENDS Integers, Sequences, FiniteSets, TLC

VARIABLES
    norm_text,      \* ArabicNormalizer.normalize: argument text
    norm_level,     \* ArabicNormalizer.normalize: argument level
    norm_result,    \* value returned by normalize(norm_text, norm_level)
    norm_again,     \* value returned by normalize(norm_result, norm_level)
    norm_pc         \* "start" | "done" | "again"

norm_vars == <<norm_text, norm_level, norm_result, norm_again, norm_pc>>

VARIABLES
    lc_text,        \* LetterCounter: argument text
    lc_method,      \* LetterCounter: argument method
    lc_wasla,       \* argument count_alif_wasla: None or Some(bool)
    lc_khanjariyya, \* argument count_alif_khanjariyya: None or Some(bool)
    lc_calls,       \* the operations called so far on these arguments
    lc_count,       \* value returned by count_letters
    lc_detailed,    \* dict returned by count_letters_detailed
    lc_normalize,   \* argument normalize_variants of get_letter_frequency
    lc_freq         \* dict returned by get_letter_frequency

lc_vars == <<lc_text, lc_method, lc_wasla, lc_khanjariyya, lc_calls, lc_count,
             lc_detailed, lc_normalize, lc_freq>>

VARIABLES
    an_has_cache,   \* AnalyzerService._cache is a RedisCache (not None)
    an_cache,       \* the Redis keys of namespace "analysis": key -> stored dict
    an_call,        \* the last count_letters call: its arguments as resolved
    an_ret,         \* what the last call returned (a dict) or raised
    an_calls        \* number of calls made so far

an_vars == <<an_has_cache, an_cache, an_call, an_ret, an_calls>>

VARIABLES
    ab_text,        \* AbjadCalculator.calculate: argument text
    ab_system,      \* argument system: None or Some(AbjadSystem)
    ab_include,     \* argument include_alif_khanjariyya
    ab_calls,       \* the operations called so far
    ab_value,       \* the AbjadValue calculate returned, or the error raised
    ab_letter,      \* AbjadCalculator.get_value: argument letter
    ab_got          \* what get_value returned: None or Some(int)

ab_vars == <<ab_text, ab_system, ab_include, ab_calls, ab_value, ab_letter, ab_got>>

VARIABLES
    av_value,       \* AbjadValue(...): argument value; also the n of the calculator
    av_breakdown,   \* AbjadValue(...): argument letter_breakdown
    av_calls,       \* the operations called so far
    av_obj,         \* the AbjadValue constructed, or the error raised
    av_obj_root,    \* what av_obj.digital_root() returned
    av_root,        \* what AbjadCalculator.digital_root(av_value) returned
    av_factors      \* what AbjadCalculator.factorize(av_value) returned

av_vars == <<av_value, av_breakdown, av_calls, av_obj, av_obj_root, av_root, av_factors>>

VARIABLES
    wc_text,        \* count_words(...): argument text
    wc_particles,   \* count_words(...): argument include_particles
    wc_order,       \* iteration order of NON_WORD_CHARS in the running interpreter
    wc_calls,       \* the operations called so far
    wc_result,      \* what count_words(wc_text) returned
    wc_again,       \* what count_words(" ".join(wc_result.words)) returned
    wc_repeat,      \* what a later count_words(wc_text) returned
    wc_positions    \* what get_word_positions(wc_text) returned

wc_vars == <<wc_text, wc_particles, wc_order, wc_calls, wc_result, wc_again, wc_repeat, wc_positions>>

VARIABLES
    ck_text,        \* compute(...): argument text
    ck_algorithm,   \* compute(...) and TextChecksum(...): argument algorithm
    ck_value,       \* TextChecksum(...): argument value
    ck_calls,       \* the operations called so far
    ck_computed,    \* what TextChecksum.compute(ck_text, ck_algorithm) returned or raised
    ck_probe,       \* verify(...): argument text
    ck_verified,    \* what ck_computed.verify(ck_probe) returned or raised
    ck_made,        \* what TextChecksum(ck_algorithm, ck_value) returned or raised
    ck_source,      \* the checksum c handed to str
    ck_restored     \* what TextChecksum.from_string(str(c)) returned or raised

ck_vars == <<ck_text, ck_algorithm, ck_value, ck_calls, ck_computed, ck_probe, ck_verified, ck_made, ck_source, ck_restored>>

VARIABLES
    ig_setting,     \* settings.fail_on_integrity_error
    ig_guard,       \* the IntegrityGuard constructed
    ig_text,        \* verify_text(...): argument text
    ig_expected,    \* verify_text(...): argument expected_checksum
    ig_context,     \* verify_text(...): argument context
    ig_calls,       \* the operations called so far
    ig_outcome,     \* what verify_text returned or raised
    ig_verse,       \* what verify_verse returned or raised
    ig_configured,  \* settings.expected_quran_checksum, kept by the guard as _expected_checksum
    ig_full         \* what guard.verify_full_quran(ig_text) returned or raised

ig_vars == <<ig_setting, ig_guard, ig_text, ig_expected, ig_context, ig_calls, ig_outcome, ig_verse,
            ig_configured, ig_full>>

VARIABLES
    bt_setting,     \* settings.fail_on_integrity_error
    bt_rows,        \* the verse rows of the database, in stream order
    bt_pc,          \* where verify_integrity is: "streaming" or "returned"
    bt_total,       \* verify_integrity: total_verses
    bt_failed,      \* verify_integrity: failed_verses
    bt_report       \* the IntegrityReport returned

bt_vars == <<bt_setting, bt_rows, bt_pc, bt_total, bt_failed, bt_report>>

VARIABLES
    vl_surah,       \* VerseLocation(...): argument surah_number
    vl_verse,       \* VerseLocation(...): argument verse_number
    vl_calls,       \* the constructions called so far
    vl_made,        \* what VerseLocation(vl_surah, vl_verse) returned or raised
    vl_string,      \* from_string(...): argument location_str
    vl_parsed,      \* what VerseLocation.from_string(vl_string) returned or raised
    vl_loc,         \* the location a caller navigates from, if any
    vl_hist         \* the last two next_verse/previous_verse calls

vl_vars == <<vl_surah, vl_verse, vl_calls, vl_made, vl_string, vl_parsed, vl_loc, vl_hist>>

VARIABLES
    em_base,        \* EntityVariantMatcher(...): argument base_word
    em_matcher,     \* the matcher constructed from em_base
    em_order,       \* iteration order of the frozenset ALL_PREFIXES in this run
    em_word,        \* the candidate word handed to matches and extract_prefix
    em_calls,       \* the methods called so far
    em_matched,     \* what matcher.matches(em_word) returned
    em_extracted    \* what matcher.extract_prefix(em_word) returned

em_vars == <<em_base, em_matcher, em_order, em_word, em_calls, em_matched, em_extracted>>

VARIABLES
    sd_texts,       \* the Uthmani texts of the verses of the surah being seeded
    sd_verses,      \* the VerseData built so far, inserted as the rows of verses
    sd_surah,       \* SurahData.checksum, inserted as the row of surahs
    sd_pc,          \* "extracting" | "aggregated" | "stored"
    sd_read,        \* what reading back and verifying each verse gave, in order
    sd_surah_read   \* what reading back and verifying the surah gave

sd_vars == <<sd_texts, sd_verses, sd_surah, sd_pc, sd_read, sd_surah_read>>

VARIABLES
    cc_shared,      \* the attributes of the shared service instances
    cc_order,       \* iteration order of NON_WORD_CHARS in the running interpreter
    cc_frame,       \* per thread: the call it makes and the locals of that call
    cc_overlap      \* whether a thread has run while the other was inside its call

cc_vars == <<cc_shared, cc_order, cc_frame, cc_overlap>>

vars == <<norm_vars, lc_vars, an_vars, ab_vars, av_vars, wc_vars, ck_vars, ig_vars, bt_vars, vl_vars, em_vars, sd_vars, cc_vars>>

\* what the operations of one component leave alone: the other components
norm_others == <<lc_vars, an_vars, ab_vars, av_vars, wc_vars, ck_vars, ig_vars, bt_vars, vl_vars, em_vars, sd_vars, cc_vars>>

lc_others == <<norm_vars, an_vars, ab_vars, av_vars, wc_vars, ck_vars, ig_vars, bt_vars, vl_vars, em_vars, sd_vars, cc_vars>>

an_others == <<norm_vars, lc_vars, ab_vars, av_vars, wc_vars, ck_vars, ig_vars, bt_vars, vl_vars, em_vars, sd_vars, cc_vars>>

ab_others == <<norm_vars, lc_vars, an_vars, av_vars, wc_vars, ck_vars, ig_vars, bt_vars, vl_vars, em_vars, sd_vars, cc_vars>>

av_others == <<norm_vars, lc_vars, an_vars, ab_vars, wc_vars, ck_vars, ig_vars, bt_vars, vl_vars, em_vars, sd_vars, cc_vars>>

wc_others == <<norm_vars, lc_vars, an_vars, ab_vars, av_vars, ck_vars, ig_vars, bt_vars, vl_vars, em_vars, sd_vars, cc_vars>>

ck_others == <<norm_vars, lc_vars, an_vars, ab_vars, av_vars, wc_vars, ig_vars, bt_vars, vl_vars, em_vars, sd_vars, cc_vars>>

ig_others == <<norm_vars, lc_vars, an_vars, ab_vars, av_vars, wc_vars, ck_vars, bt_vars, vl_vars, em_vars, sd_vars, cc_vars>>

bt_others == <<norm_vars, lc_vars, an_vars, ab_vars, av_vars, wc_vars, ck_vars, ig_vars, vl_vars, em_vars, sd_vars, cc_vars>>

vl_others == <<norm_vars, lc_vars, an_vars, ab_vars, av_vars, wc_vars, ck_vars, ig_vars, bt_vars, em_vars, sd_vars, cc_vars>>

em_others == <<norm_vars, lc_vars, an_vars, ab_vars, av_vars, wc_vars, ck_vars, ig_vars, bt_vars, vl_vars, sd_vars, cc_vars>>

sd_others == <<norm_vars, lc_vars, an_vars, ab_vars, av_vars, wc_vars, ck_vars, ig_vars, bt_vars, vl_vars, em_vars, cc_vars>>

cc_others == <<norm_vars, lc_vars, an_vars, ab_vars, av_vars, wc_vars, ck_vars, ig_vars, bt_vars, vl_vars, em_vars, sd_vars>>

(***************************************************************************)
(* Bounds of the model.                                                    *)
(***************************************************************************)
MaxNormLen == 2

MaxLetterLen == 2

MaxCalls == 2

MaxAbjadLen == 2

MaxValue == 200

MaxWordLen == 4

MaxChecksumLen == 1

MaxDigestLen == 3

MaxVerses == 3

MaxVerseArg == 12

\* longest canonical word of an EntityVariantMatcher
MaxBaseLen == 2

\* longest freely written candidate word
MaxCandidateLen == 3

\* most verses of the seeded surah
MaxSeedVerses == 3

\* longest text handed to a concurrent call
MaxSharedLen == 2

MaxBreakdownLen == 2

BoundedSeq(S, n) == UNION {[1..k -> S] : k \in 0..n}

(***************************************************************************)
(* Generic string helpers (Python str semantics on single code points).    *)
(***************************************************************************)

\* "".join(c for c in text if c not in chars)
RemoveChars(text, chars) == SelectSeq(text, LAMBDA c : c \notin chars)

\* text.replace(variant, replacement) for a one-character variant and a
\* one-character replacement
Replace(text, variant, replacement) ==
    [i \in 1..Len(text) |-> IF text[i] = variant THEN replacement ELSE text[i]]

\* for variant, replacement in map.items(): text = text.replace(...)
\* (map is the dict in insertion order, as a sequence of pairs)
RECURSIVE ReplaceAll(_, _)
ReplaceAll(text, map) ==
    IF map = <<>> THEN text
    ELSE ReplaceAll(Replace(text, Head(map)[1], Head(map)[2]), Tail(map))

\* Python's a >= b on two str values: lexicographic on code points, a proper
\* prefix being the smaller one
RECURSIVE StrGE(_, _)
StrGE(a, b) ==
    IF b = <<>> THEN TRUE
    ELSE IF a = <<>> THEN FALSE
    ELSE IF Head(a) > Head(b) THEN TRUE
    ELSE IF Head(a) < Head(b) THEN FALSE
    ELSE StrGE(Tail(a), Tail(b))

(***************************************************************************)
(* NormalizationLevel (StrEnum): a member IS its string value.             *)
(***************************************************************************)
\* "none"
NONE == <<110, 111, 110, 101>>
\* "tashkeel_removed"
TASHKEEL_REMOVED ==
    <<116, 97, 115, 104, 107, 101, 101, 108, 95, 114, 101, 109, 111, 118, 101, 100>>
\* "hamza_unified"
HAMZA_UNIFIED == <<104, 97, 109, 122, 97, 95, 117, 110, 105, 102, 105, 101, 100>>
\* "alif_unified"
ALIF_UNIFIED == <<97, 108, 105, 102, 95, 117, 110, 105, 102, 105, 101, 100>>
\* "ya_unified"
YA_UNIFIED == <<121, 97, 95, 117, 110, 105, 102, 105, 101, 100>>
\* "full"
FULL == <<102, 117, 108, 108>>

\* the members in definition order
NormalizationLevel ==
    <<NONE, TASHKEEL_REMOVED, HAMZA_UNIFIED, ALIF_UNIFIED, YA_UNIFIED, FULL>>

Levels == {NormalizationLevel[i] : i \in 1..Len(NormalizationLevel)}

(***************************************************************************)
(* ArabicNormalizer: character tables.                                     *)
(***************************************************************************)
TASHKEEL ==
    {1611, 1612, 1613, 1614, 1615, 1616, 1617, 1618, 1619, 1620, 1621, 1622,
     1623, 1624, 1628, 1629, 1630, 1648}

HAMZA_MAP ==
    <<<<1571, 1569>>, <<1573, 1569>>, <<1572, 1569>>, <<1574, 1569>>, <<1570, 1569>>>>

\* a wrong target for the superscript Alif: U+0671 (Alif Wasla) instead of U+0627
ALIF_MAP_wasla ==
    <<<<1570, 1575>>, <<1571, 1575>>, <<1573, 1575>>, <<1649, 1575>>, <<1648, 1649>>>>

ALIF_MAP ==
    <<<<1570, 1575>>, <<1571, 1575>>, <<1573, 1575>>, <<1649, 1575>>, <<1648, 1575>>>>

YA_MAP == <<<<1609, 1610>>, <<1574, 1610>>>>

TATWEEL == 1600

SMALL_LETTERS ==
    {1761, 1762, 1763, 1764, 1765, 1766, 1767, 1768, 1769, 1770, 1771, 1772, 1773}

WAQF_SIGNS == {1750, 1751, 1752, 1753, 1754, 1755, 1756, 1757, 1758}

(***************************************************************************)
(* ArabicNormalizer: the steps and normalize.                              *)
(***************************************************************************)
remove_tashkeel(text) == RemoveChars(text, TASHKEEL)

unify_hamza(text) == ReplaceAll(text, HAMZA_MAP)

unify_alif(text) == ReplaceAll(text, ALIF_MAP)

unify_ya(text) == ReplaceAll(text, YA_MAP)

full_normalize(text) ==
    LET t1 == RemoveChars(text, {TATWEEL})
        t2 == RemoveChars(t1, SMALL_LETTERS)
    IN  RemoveChars(t2, WAQF_SIGNS)

\* normalize: the guards compare level.value with the member's value, two
\* str values, with >=
normalize(text, level) ==
    IF level = NONE THEN text
    ELSE
      LET t1 == IF StrGE(level, TASHKEEL_REMOVED) THEN remove_tashkeel(text) ELSE text
          t2 == IF StrGE(level, HAMZA_UNIFIED) THEN unify_hamza(t1) ELSE t1
          t3 == IF StrGE(level, ALIF_UNIFIED) THEN unify_alif(t2) ELSE t2
          t4 == IF StrGE(level, YA_UNIFIED) THEN unify_ya(t3) ELSE t3
      IN  IF level = FULL THEN full_normalize(t4) ELSE t4

(***************************************************************************)
(* Inputs of the normalizer: one or two characters of every class the      *)
(* tables distinguish.                                                     *)
(***************************************************************************)
\* fatha, superscript alif, alif-hamza-above, alif-madda, ya-hamza,
\* alif wasla, alif maqsura, tatweel, small high dotless head, waqf sad-lam,
\* ba, space
NormChars == {1614, 1648, 1571, 1570, 1574, 1649, 1609, 1600, 1761, 1750, 1576, 32}

NormTexts == BoundedSeq(NormChars, MaxNormLen)

NormInit ==
    /\ norm_text \in NormTexts
    /\ norm_level \in Levels
    /\ norm_result = <<>>
    /\ norm_again = <<>>
    /\ norm_pc = "start"

\* a caller invokes normalize(text, level)
Normalize ==
    /\ norm_pc = "start"
    /\ norm_result' = normalize(norm_text, norm_level)
    /\ norm_pc' = "done"
    /\ UNCHANGED <<norm_text, norm_level, norm_again>>
    /\ UNCHANGED norm_others

\* the caller passes the returned text to normalize again, at the same level
NormalizeAgain ==
    /\ norm_pc = "done"
    /\ norm_again' = normalize(norm_result, norm_level)
    /\ norm_pc' = "again"
    /\ UNCHANGED <<norm_text, norm_level, norm_result>>
    /\ UNCHANGED norm_others

NormIdle ==
    /\ norm_text = <<>>
    /\ norm_level = NONE
    /\ norm_result = <<>>
    /\ norm_again = <<>>
    /\ norm_pc = "idle"

(***************************************************************************)
(* LetterCountMethod (StrEnum) and LetterCounter.                          *)
(***************************************************************************)
TRADITIONAL == "traditional"

UTHMANI_FULL == "uthmani_full"

NO_WASLA == "no_wasla"

LetterCountMethod == {TRADITIONAL, UTHMANI_FULL, NO_WASLA}

\* an optional argument: None, or the value given
None == <<>>

Some(v) == <<v>>

ARABIC_LETTERS ==
    {1569, 1570, 1571, 1572, 1573, 1574, 1575, 1576, 1578, 1579, 1580, 1581,
     1582, 1583, 1584, 1585, 1586, 1587, 1588, 1589, 1590, 1591, 1592, 1593,
     1594, 1601, 1602, 1603, 1604, 1605, 1606, 1607, 1608, 1609, 1610}

ALIF_WASLA == 1649

ALIF_KHANJARIYYA == 1648

COUNTABLE_SPECIAL == {ALIF_WASLA, ALIF_KHANJARIYYA}

\* NO_WASLA counting the superscript Alif
method_rules_khanjariyya ==
    (TRADITIONAL :> <<TRUE, FALSE>>) @@ (UTHMANI_FULL :> <<TRUE, TRUE>>)
        @@ (NO_WASLA :> <<FALSE, TRUE>>)

\* the table of _get_counting_rules: method -> (wasla, khanjariyya)
method_rules ==
    (TRADITIONAL :> <<TRUE, FALSE>>) @@ (UTHMANI_FULL :> <<TRUE, TRUE>>)
        @@ (NO_WASLA :> <<FALSE, FALSE>>)

\* _get_counting_rules(method, wasla_override, khanjariyya_override)
get_counting_rules(method, wasla_override, khanjariyya_override) ==
    LET dflt == IF method \in DOMAIN method_rules
                THEN method_rules[method] ELSE <<TRUE, FALSE>>
        include_wasla == IF wasla_override # None THEN wasla_override[1] ELSE dflt[1]
        include_khanjariyya ==
            IF khanjariyya_override # None THEN khanjariyya_override[1] ELSE dflt[2]
    IN  <<include_wasla, include_khanjariyya>>

\* the loop of count_letters over the characters of text
RECURSIVE count_loop(_, _, _)
count_loop(text, include_wasla, include_khanjariyya) ==
    IF text = <<>> THEN 0
    ELSE LET char == Head(text)
             one == IF char \in ARABIC_LETTERS THEN 1
                    ELSE IF include_wasla /\ char = ALIF_WASLA THEN 1
                    ELSE IF include_khanjariyya /\ char = ALIF_KHANJARIYYA THEN 1
                    ELSE 0
         IN  one + count_loop(Tail(text), include_wasla, include_khanjariyya)

\* count_letters whose loop ignores the resolved khanjariyya flag
count_letters_always_khanjariyya(text, method, count_alif_wasla, count_alif_khanjariyya) ==
    LET rules == get_counting_rules(method, count_alif_wasla, count_alif_khanjariyya)
    IN  count_loop(text, rules[1], TRUE)

\* count_letters(text, method, count_alif_wasla=, count_alif_khanjariyya=)
count_letters(text, method, count_alif_wasla, count_alif_khanjariyya) ==
    LET rules == get_counting_rules(method, count_alif_wasla, count_alif_khanjariyya)
    IN  count_loop(text, rules[1], rules[2])

\* the loop of count_letters_detailed: <<base, wasla, khanjariyya>>
RECURSIVE detailed_loop(_)
detailed_loop(text) ==
    IF text = <<>> THEN <<0, 0, 0>>
    ELSE LET char == Head(text)
             rest == detailed_loop(Tail(text))
         IN  IF char \in ARABIC_LETTERS THEN <<rest[1] + 1, rest[2], rest[3]>>
             ELSE IF char = ALIF_WASLA THEN <<rest[1], rest[2] + 1, rest[3]>>
             ELSE IF char = ALIF_KHANJARIYYA THEN <<rest[1], rest[2], rest[3] + 1>>
             ELSE rest

\* count_letters_detailed(text, method, count_alif_wasla=, count_alif_khanjariyya=)
count_letters_detailed(text, method, count_alif_wasla, count_alif_khanjariyya) ==
    LET rules == get_counting_rules(method, count_alif_wasla, count_alif_khanjariyya)
        n == detailed_loop(text)
        total == n[1] + (IF rules[1] THEN n[2] ELSE 0) + (IF rules[2] THEN n[3] ELSE 0)
    IN  [total |-> total, base_letters |-> n[1], alif_wasla |-> n[2],
         alif_khanjariyya |-> n[3], method |-> method,
         wasla_included |-> rules[1], khanjariyya_included |-> rules[2]]

\* _normalize_letter(char)
normalize_letter(char) ==
    IF char \in {1570, 1571, 1573, 1575, ALIF_WASLA, ALIF_KHANJARIYYA} THEN 1575
    ELSE IF char \in {1610, 1609, 1574} THEN 1610
    ELSE char

\* get_letter_frequency(text, normalize_variants): the dict, as a function
\* from the letters seen to their counts
get_letter_frequency(text, normalize_variants) ==
    LET counted == SelectSeq(text, LAMBDA c : c \in ARABIC_LETTERS \/ c \in COUNTABLE_SPECIAL)
        letter(i) == IF normalize_variants THEN normalize_letter(counted[i])
                     ELSE counted[i]
        keys == {letter(i) : i \in 1..Len(counted)}
    IN  [l \in keys |-> Cardinality({i \in 1..Len(counted) : letter(i) = l})]

\* sum(frequency.values())
RECURSIVE SumValues(_)
SumValues(f) ==
    IF DOMAIN f = {} THEN 0
    ELSE LET k == CHOOSE x \in DOMAIN f : TRUE
         IN  f[k] + SumValues([x \in DOMAIN f \ {k} |-> f[x]])

(***************************************************************************)
(* Inputs of the letter counter.                                           *)
(***************************************************************************)
\* alif, ba, alif wasla, superscript alif, alif-hamza-above, alif maqsura,
\* ya-hamza, fatha, space
LetterChars == {1575, 1576, 1649, 1648, 1571, 1609, 1574, 1614, 32}

LetterTexts == BoundedSeq(LetterChars, MaxLetterLen)

Override == {None, Some(TRUE), Some(FALSE)}

NoDetail ==
    [total |-> 0, base_letters |-> 0, alif_wasla |-> 0, alif_khanjariyya |-> 0,
     method |-> TRADITIONAL, wasla_included |-> FALSE, khanjariyya_included |-> FALSE]

LcInit ==
    /\ lc_text \in LetterTexts
    /\ lc_method \in LetterCountMethod
    /\ lc_wasla \in Override
    /\ lc_khanjariyya \in Override
    /\ lc_calls = {}
    /\ lc_count = 0
    /\ lc_detailed = NoDetail
    /\ lc_normalize = FALSE
    /\ lc_freq = <<>>

LcIdle ==
    /\ lc_text = <<>>
    /\ lc_method = TRADITIONAL
    /\ lc_wasla = None
    /\ lc_khanjariyya = None
    /\ lc_calls = {}
    /\ lc_count = 0
    /\ lc_detailed = NoDetail
    /\ lc_normalize = FALSE
    /\ lc_freq = <<>>

CountLetters ==
    /\ "count_letters" \notin lc_calls
    /\ lc_count' = count_letters(lc_text, lc_method, lc_wasla, lc_khanjariyya)
    /\ lc_calls' = lc_calls \cup {"count_letters"}
    /\ UNCHANGED <<lc_text, lc_method, lc_wasla, lc_khanjariyya, lc_detailed,
                   lc_normalize, lc_freq>>
    /\ UNCHANGED lc_others

CountLettersDetailed ==
    /\ "count_letters_detailed" \notin lc_calls
    /\ lc_detailed' = count_letters_detailed(lc_text, lc_method, lc_wasla, lc_khanjariyya)
    /\ lc_calls' = lc_calls \cup {"count_letters_detailed"}
    /\ UNCHANGED <<lc_text, lc_method, lc_wasla, lc_khanjariyya, lc_count,
                   lc_normalize, lc_freq>>
    /\ UNCHANGED lc_others

GetLetterFrequency ==
    /\ "get_letter_frequency" \notin lc_calls
    /\ \E normalize_variants \in BOOLEAN :
          /\ lc_normalize' = normalize_variants
          /\ lc_freq' = get_letter_frequency(lc_text, normalize_variants)
    /\ lc_calls' = lc_calls \cup {"get_letter_frequency"}
    /\ UNCHANGED <<lc_text, lc_method, lc_wasla, lc_khanjariyya, lc_count,
                   lc_detailed>>
    /\ UNCHANGED lc_others

(***************************************************************************)
(* AnalyzerService.count_letters, the letter-count endpoint, the cache and  *)
(* the repository it reads.                                                *)
(***************************************************************************)
\* ScriptType (StrEnum)
UTHMANI == "uthmani"

SIMPLE == "simple"

\* "\n", the separator of get_full_text and of the whole-corpus text
NEWLINE == 10

\* The repository's content: one surah of two verses, in two scripts.  The
\* Uthmani text carries Alif Wasla and superscript Alif, the simple text
\* plain letters only.
RepoVerses ==
    (UTHMANI :> << <<1649, 1604, 1648>>, <<1576, 1648>> >>)
        @@ (SIMPLE :> << <<1575, 1604>>, <<1576>> >>)

\* "\n".join(v.get_text(script_type) for v in verses)
RECURSIVE JoinLines(_)
JoinLines(texts) ==
    IF texts = <<>> THEN <<>>
    ELSE IF Len(texts) = 1 THEN texts[1]
    ELSE texts[1] \o <<NEWLINE>> \o JoinLines(Tail(texts))

\* _get_text(surah_number, verse_number, script_type): the text, or the
\* exception raised
get_text(surah_number, verse_number, script_type) ==
    IF verse_number # None
    THEN IF surah_number = None THEN [error |-> "ValueError"]
         ELSE IF surah_number[1] = 1 /\ verse_number[1] \in 1..Len(RepoVerses[script_type])
              THEN [text |-> RepoVerses[script_type][verse_number[1]]]
              ELSE [error |-> "VerseNotFoundError"]
    ELSE IF surah_number # None
    THEN IF surah_number[1] = 1 THEN [text |-> JoinLines(RepoVerses[script_type])]
         ELSE [error |-> "SurahNotFoundError"]
    ELSE [text |-> JoinLines(RepoVerses[script_type])]

\* cache_key = f"letters:{surah_number}:{verse_number}:{script_type.value}"
cache_key(surah_number, verse_number, script_type) ==
    <<"letters", surah_number, verse_number, script_type>>

\* the "methodology" string of the result
methodology(count_alif_wasla, count_alif_khanjariyya) ==
    [alif_wasla |-> IF count_alif_wasla THEN "counted" ELSE "excluded",
     alif_khanjariyya |-> IF count_alif_khanjariyya THEN "counted" ELSE "excluded"]

\* the defaults of AnalyzerService.count_letters for count_alif_wasla and
\* count_alif_khanjariyya
analyzer_defaults == <<TRUE, TRUE>>

\* the defaults of the endpoint's query parameters count_alif_wasla and
\* count_alif_khanjariyya
endpoint_defaults == <<TRUE, TRUE>>

\* an argument as the callee sees it: the value given, else the default
Arg(given, default) == IF given = None THEN default ELSE given[1]

\* AnalyzerService.count_letters: <<what it returns or raises, the cache after>>
\* (RedisCache.set stores json.dumps(result) and RedisCache.get returns
\* json.loads of it: a dict of ints, strs and None, which json returns as
\* stored)
analyzer_count_letters(has_cache, cache, surah_number, verse_number, script_type, count_alif_wasla, count_alif_khanjariyya) ==
    LET key == cache_key(surah_number, verse_number, script_type)
        got == get_text(surah_number, verse_number, script_type)
        result ==
            [count |-> count_letters(got.text, TRADITIONAL, Some(count_alif_wasla),
                                     Some(count_alif_khanjariyya)),
             scope |-> [surah |-> surah_number, verse |-> verse_number,
                        script |-> script_type],
             methodology |-> methodology(count_alif_wasla, count_alif_khanjariyya)]
    IN  IF has_cache /\ key \in DOMAIN cache THEN <<cache[key], cache>>
        ELSE IF "error" \in DOMAIN got THEN <<got, cache>>
        ELSE IF has_cache THEN <<result, (key :> result) @@ cache>>
        ELSE <<result, cache>>

(***************************************************************************)
(* Inputs of the analyzer.                                                 *)
(***************************************************************************)
\* (surah, verse): the whole corpus, surah 1, its two verses, and a verse
\* without a surah
Scopes == {<<None, None>>, <<Some(1), None>>, <<Some(1), Some(1)>>,
           <<Some(1), Some(2)>>, <<None, Some(1)>>}

Scripts == {UTHMANI, SIMPLE}

NoCall ==
    [via |-> "none", surah |-> None, verse |-> None, script |-> UTHMANI,
     count_alif_wasla |-> TRUE, count_alif_khanjariyya |-> TRUE,
     all_default |-> FALSE]

AnInit ==
    /\ an_has_cache \in BOOLEAN
    /\ an_cache = <<>>
    /\ an_call = NoCall
    /\ an_ret = [error |-> "none"]
    /\ an_calls = 0

AnIdle ==
    /\ an_has_cache = FALSE
    /\ an_cache = <<>>
    /\ an_call = NoCall
    /\ an_ret = [error |-> "none"]
    /\ an_calls = 0

\* a caller invokes AnalyzerService.count_letters, giving or omitting the
\* two flags
ServiceCountLetters ==
    /\ an_calls < MaxCalls
    /\ \E scope \in Scopes, script \in Scripts, w \in Override, k \in Override :
          LET cw == Arg(w, analyzer_defaults[1])
              ck == Arg(k, analyzer_defaults[2])
              out == analyzer_count_letters(an_has_cache, an_cache, scope[1],
                                            scope[2], script, cw, ck)
          IN  /\ an_call' = [via |-> "service", surah |-> scope[1], verse |-> scope[2],
                             script |-> script, count_alif_wasla |-> cw,
                             count_alif_khanjariyya |-> ck,
                             all_default |-> (w = None /\ k = None)]
              /\ an_ret' = out[1]
              /\ an_cache' = out[2]
    /\ an_calls' = an_calls + 1
    /\ UNCHANGED an_has_cache
    /\ UNCHANGED an_others

\* GET /analysis/letters/count, giving or omitting the two query parameters;
\* the endpoint copies count, scope and methodology into a CountResponse and
\* lets a ValueError through (it catches DomainException only)
EndpointCountLetters ==
    /\ an_calls < MaxCalls
    /\ \E scope \in Scopes, script \in Scripts, w \in Override, k \in Override :
          LET cw == Arg(w, endpoint_defaults[1])
              ck == Arg(k, endpoint_defaults[2])
              out == analyzer_count_letters(an_has_cache, an_cache, scope[1],
                                            scope[2], script, cw, ck)
          IN  /\ an_call' = [via |-> "endpoint", surah |-> scope[1], verse |-> scope[2],
                             script |-> script, count_alif_wasla |-> cw,
                             count_alif_khanjariyya |-> ck,
                             all_default |-> (w = None /\ k = None)]
              /\ an_ret' = IF "error" \in DOMAIN out[1] THEN out[1]
                           ELSE [count |-> out[1].count, scope |-> out[1].scope,
                                 methodology |-> out[1].methodology]
              /\ an_cache' = out[2]
    /\ an_calls' = an_calls + 1
    /\ UNCHANGED an_has_cache
    /\ UNCHANGED an_others

\* Redis drops a key when its TTL (ex=ttl) runs out
CacheExpire ==
    /\ \E key \in DOMAIN an_cache :
          an_cache' = [x \in DOMAIN an_cache \ {key} |-> an_cache[x]]
    /\ UNCHANGED <<an_has_cache, an_call, an_ret, an_calls>>
    /\ UNCHANGED an_others

(***************************************************************************)
(* AbjadSystem (StrEnum), AbjadValue and AbjadCalculator.                  *)
(***************************************************************************)
MASHRIQI == "mashriqi"

MAGHRIBI == "maghribi"

AbjadSystem == {MASHRIQI, MAGHRIBI}

MASHRIQI_VALUES ==
    (1575 :> 1) @@ (1571 :> 1) @@ (1573 :> 1) @@ (1570 :> 1) @@ (1569 :> 1)
    @@ (1649 :> 1) @@ (1576 :> 2) @@ (1580 :> 3) @@ (1583 :> 4) @@ (1607 :> 5)
    @@ (1608 :> 6) @@ (1586 :> 7) @@ (1581 :> 8) @@ (1591 :> 9) @@ (1610 :> 10)
    @@ (1609 :> 10) @@ (1574 :> 10) @@ (1603 :> 20) @@ (1604 :> 30)
    @@ (1605 :> 40) @@ (1606 :> 50) @@ (1587 :> 60) @@ (1593 :> 70)
    @@ (1601 :> 80) @@ (1589 :> 90) @@ (1602 :> 100) @@ (1585 :> 200)
    @@ (1588 :> 300) @@ (1578 :> 400) @@ (1579 :> 500) @@ (1582 :> 600)
    @@ (1584 :> 700) @@ (1590 :> 800) @@ (1592 :> 900) @@ (1594 :> 1000)

MAGHRIBI_VALUES ==
    (1575 :> 1) @@ (1571 :> 1) @@ (1573 :> 1) @@ (1570 :> 1) @@ (1569 :> 1)
    @@ (1649 :> 1) @@ (1576 :> 2) @@ (1580 :> 3) @@ (1583 :> 4) @@ (1607 :> 5)
    @@ (1608 :> 6) @@ (1586 :> 7) @@ (1581 :> 8) @@ (1591 :> 9) @@ (1610 :> 10)
    @@ (1609 :> 10) @@ (1574 :> 10) @@ (1603 :> 20) @@ (1604 :> 30)
    @@ (1605 :> 40) @@ (1606 :> 50) @@ (1589 :> 60) @@ (1593 :> 70)
    @@ (1601 :> 80) @@ (1590 :> 90) @@ (1602 :> 100) @@ (1585 :> 200)
    @@ (1587 :> 300) @@ (1578 :> 400) @@ (1579 :> 500) @@ (1582 :> 600)
    @@ (1584 :> 700) @@ (1588 :> 800) @@ (1592 :> 900) @@ (1594 :> 1000)

\* sum(v for _, v in letter_breakdown)
RECURSIVE SumBreakdown(_)
SumBreakdown(letter_breakdown) ==
    IF letter_breakdown = <<>> THEN 0
    ELSE Head(letter_breakdown)[2] + SumBreakdown(Tail(letter_breakdown))

\* AbjadValue(...) that stores the computed sum instead of raising
AbjadValue_autocorrect(system, value, letter_breakdown) ==
    IF value < 0 THEN [error |-> "ValueError"]
    ELSE [system |-> system, value |-> SumBreakdown(letter_breakdown),
          letter_breakdown |-> letter_breakdown]

\* AbjadValue(system=, value=, letter_breakdown=): the frozen dataclass, or
\* the ValueError of __post_init__
AbjadValue(system, value, letter_breakdown) ==
    IF value < 0 THEN [error |-> "ValueError"]
    ELSE IF SumBreakdown(letter_breakdown) # value THEN [error |-> "ValueError"]
    ELSE [system |-> system, value |-> value, letter_breakdown |-> letter_breakdown]

\* system = system or AbjadSystem.MASHRIQI; the table of that system
values_of(system) ==
    LET sys == IF system = None THEN MASHRIQI ELSE system[1]
    IN  IF sys = MASHRIQI THEN MASHRIQI_VALUES ELSE MAGHRIBI_VALUES

\* the loop of calculate, the superscript Alif appended to the breakdown but
\* not added to total
RECURSIVE calculate_loop_no_total(_, _, _, _, _)
calculate_loop_no_total(text, values, include_alif_khanjariyya, breakdown, total) ==
    IF text = <<>> THEN <<breakdown, total>>
    ELSE LET char == Head(text)
         IN  IF char = ALIF_KHANJARIYYA /\ include_alif_khanjariyya
             THEN calculate_loop_no_total(Tail(text), values, include_alif_khanjariyya,
                                          Append(breakdown, <<char, 1>>), total)
             ELSE IF char \in DOMAIN values
             THEN calculate_loop_no_total(Tail(text), values, include_alif_khanjariyya,
                                          Append(breakdown, <<char, values[char]>>),
                                          total + values[char])
             ELSE calculate_loop_no_total(Tail(text), values, include_alif_khanjariyya,
                                          breakdown, total)

\* the loop of calculate: <<breakdown, total>> after the characters of text
RECURSIVE calculate_loop(_, _, _, _, _)
calculate_loop(text, values, include_alif_khanjariyya, breakdown, total) ==
    IF text = <<>> THEN <<breakdown, total>>
    ELSE LET char == Head(text)
         IN  IF char = ALIF_KHANJARIYYA /\ include_alif_khanjariyya
             THEN calculate_loop(Tail(text), values, include_alif_khanjariyya,
                                 Append(breakdown, <<char, 1>>), total + 1)
             ELSE IF char \in DOMAIN values
             THEN calculate_loop(Tail(text), values, include_alif_khanjariyya,
                                 Append(breakdown, <<char, values[char]>>),
                                 total + values[char])
             ELSE calculate_loop(Tail(text), values, include_alif_khanjariyya,
                                 breakdown, total)

\* calculate(text, system, include_alif_khanjariyya)
calculate(text, system, include_alif_khanjariyya) ==
    LET sys == IF system = None THEN MASHRIQI ELSE system[1]
        out == calculate_loop(text, values_of(system), include_alif_khanjariyya, <<>>, 0)
    IN  AbjadValue(sys, out[2], out[1])

\* get_value(letter, system): None or Some(value)
get_value(letter, system) ==
    IF letter = ALIF_KHANJARIYYA THEN Some(1)
    ELSE IF letter \in DOMAIN values_of(system) THEN Some(values_of(system)[letter])
    ELSE None

(***************************************************************************)
(* Inputs of the Abjad calculator.                                         *)
(***************************************************************************)
\* hamza, waw-hamza, ya-hamza, alif, seen, ya, fatha, superscript alif,
\* alif wasla, space
AbjadChars == {1569, 1572, 1574, 1575, 1587, 1610, 1614, 1648, 1649, 32}

AbjadTexts == BoundedSeq(AbjadChars, MaxAbjadLen)

\* the letters get_value is asked about: the Alif, Hamza and Ya families,
\* the superscript Alif, seen, a Latin letter and the space
AbjadLetters ==
    {1575, 1571, 1573, 1570, 1649, 1569, 1572, 1574, 1610, 1609, 1648, 1587, 97, 32}

SystemArgs == {None} \cup {Some(sys) : sys \in AbjadSystem}

AbInit ==
    /\ ab_text \in AbjadTexts
    /\ ab_system \in SystemArgs
    /\ ab_include \in BOOLEAN
    /\ ab_calls = {}
    /\ ab_value = [error |-> "none"]
    /\ ab_letter = 32
    /\ ab_got = None

AbIdle ==
    /\ ab_text = <<>>
    /\ ab_system = None
    /\ ab_include = TRUE
    /\ ab_calls = {}
    /\ ab_value = [error |-> "none"]
    /\ ab_letter = 32
    /\ ab_got = None

Calculate ==
    /\ "calculate" \notin ab_calls
    /\ ab_value' = calculate(ab_text, ab_system, ab_include)
    /\ ab_calls' = ab_calls \cup {"calculate"}
    /\ UNCHANGED <<ab_text, ab_system, ab_include, ab_letter, ab_got>>
    /\ UNCHANGED ab_others

GetValue ==
    /\ "get_value" \notin ab_calls
    /\ \E letter \in AbjadLetters :
          /\ ab_letter' = letter
          /\ ab_got' = get_value(letter, ab_system)
    /\ ab_calls' = ab_calls \cup {"get_value"}
    /\ UNCHANGED <<ab_text, ab_system, ab_include, ab_value>>
    /\ UNCHANGED ab_others

(***************************************************************************)
(* AbjadValue construction, digital_root and AbjadCalculator.factorize.    *)
(***************************************************************************)
\* AbjadValue.digital_root(self)
AbjadValue_digital_root(self) ==
    IF self.value = 0 THEN 0 ELSE 1 + ((self.value - 1) % 9)

\* the closed form written as value % 9
digital_root_mod9(value) == IF value = 0 THEN 0 ELSE value % 9

\* AbjadCalculator.digital_root(value)
digital_root(value) == IF value = 0 THEN 0 ELSE 1 + ((value - 1) % 9)

\* the inner loop of factorize: while value % d == 0: factors.append(d); value //= d
RECURSIVE factorize_inner(_, _, _)
factorize_inner(value, d, factors) ==
    IF value % d = 0
    THEN factorize_inner(value \div d, d, Append(factors, d))
    ELSE <<value, factors>>

\* the outer loop of factorize with d * d < value as its guard
RECURSIVE factorize_loop_strict(_, _, _)
factorize_loop_strict(value, d, factors) ==
    IF d * d < value
    THEN LET r == factorize_inner(value, d, factors)
         IN  factorize_loop_strict(r[1], d + 1, r[2])
    ELSE IF value > 1 THEN Append(factors, value) ELSE factors

\* the outer loop of factorize, while d * d <= value: ...; d += 1, and the
\* final append of a remaining value > 1
RECURSIVE factorize_loop(_, _, _)
factorize_loop(value, d, factors) ==
    IF d * d <= value
    THEN LET r == factorize_inner(value, d, factors)
         IN  factorize_loop(r[1], d + 1, r[2])
    ELSE IF value > 1 THEN Append(factors, value) ELSE factors

\* AbjadCalculator.factorize(value)
factorize(value) == IF value < 2 THEN <<>> ELSE factorize_loop(value, 2, <<>>)

(***************************************************************************)
(* Inputs of AbjadValue and of the numeric operations.                     *)
(***************************************************************************)
\* contributions around the declared value
Contributions(value) == {-1, 1, value - 1, value, value + 1}

\* breakdowns of the letter ghayn with those contributions
Breakdowns(value) ==
    BoundedSeq({<<1594, c>> : c \in Contributions(value)}, MaxBreakdownLen)

AvInit ==
    /\ av_value \in -2..MaxValue
    /\ av_breakdown \in Breakdowns(av_value)
    /\ av_calls = {}
    /\ av_obj = [error |-> "none"]
    /\ av_obj_root = 0
    /\ av_root = 0
    /\ av_factors = <<>>

AvIdle ==
    /\ av_value = 0
    /\ av_breakdown = <<>>
    /\ av_calls = {}
    /\ av_obj = [error |-> "none"]
    /\ av_obj_root = 0
    /\ av_root = 0
    /\ av_factors = <<>>

\* AbjadValue(system=MASHRIQI, value=av_value, letter_breakdown=av_breakdown)
Construct ==
    /\ "AbjadValue" \notin av_calls
    /\ av_obj' = AbjadValue(MASHRIQI, av_value, av_breakdown)
    /\ av_calls' = av_calls \cup {"AbjadValue"}
    /\ UNCHANGED <<av_value, av_breakdown, av_obj_root, av_root, av_factors>>
    /\ UNCHANGED av_others

\* digital_root() of the object constructed
ObjectDigitalRoot ==
    /\ "AbjadValue" \in av_calls
    /\ "error" \notin DOMAIN av_obj
    /\ "obj.digital_root" \notin av_calls
    /\ av_obj_root' = AbjadValue_digital_root(av_obj)
    /\ av_calls' = av_calls \cup {"obj.digital_root"}
    /\ UNCHANGED <<av_value, av_breakdown, av_obj, av_root, av_factors>>
    /\ UNCHANGED av_others

\* AbjadCalculator.digital_root(av_value)
DigitalRoot ==
    /\ "digital_root" \notin av_calls
    /\ av_root' = digital_root(av_value)
    /\ av_calls' = av_calls \cup {"digital_root"}
    /\ UNCHANGED <<av_value, av_breakdown, av_obj, av_obj_root, av_factors>>
    /\ UNCHANGED av_others

\* AbjadCalculator.factorize(av_value)
Factorize ==
    /\ "factorize" \notin av_calls
    /\ av_factors' = factorize(av_value)
    /\ av_calls' = av_calls \cup {"factorize"}
    /\ UNCHANGED <<av_value, av_breakdown, av_obj, av_obj_root, av_root>>
    /\ UNCHANGED av_others

(***************************************************************************)
(* WordCounter.                                                            *)
(***************************************************************************)
SPACE == 32

\* the characters for which str.isspace() holds: what str.split() and
\* str.strip() without arguments treat as whitespace
WHITESPACE ==
    {9, 10, 11, 12, 13, 28, 29, 30, 31, 32, 133, 160, 5760} \cup (8192..8202)
        \cup {8232, 8233, 8239, 8287, 12288}

\* WordCounter.WORD_SEPARATORS
WORD_SEPARATORS == {32, 160, 8203}

\* WordCounter.NON_WORD_CHARS: U+06DD, U+06DE, U+06E9 and U+06D6..U+06DC
NON_WORD_CHARS == {1757, 1758, 1769} \cup (1750..1756)

\* cleaned.replace(char, " ") replacing the first occurrence only
replace_mark_first(cleaned, char) ==
    [i \in 1..Len(cleaned) |->
        IF cleaned[i] = char /\ \A j \in 1..(i - 1) : cleaned[j] # char
        THEN SPACE ELSE cleaned[i]]

\* cleaned.replace(char, " ")
replace_mark(cleaned, char) == Replace(cleaned, char, SPACE)

\* decisions.append(f"Removed {repr(char)} (non-word character)")
Removed(char) == <<"Removed", char>>

\* decisions.append(f"Split text into {len(raw_words)} raw tokens")
SplitInto(n) == <<"Split", n>>

\* the loop over NON_WORD_CHARS logging every mark, present or not
RECURSIVE remove_non_word_unchecked(_, _, _)
remove_non_word_unchecked(cleaned, decisions, order) ==
    IF order = <<>> THEN <<cleaned, decisions>>
    ELSE remove_non_word_unchecked(replace_mark(cleaned, Head(order)),
                                   Append(decisions, Removed(Head(order))), Tail(order))

\* for char in self.NON_WORD_CHARS: if char in cleaned: replace and log;
\* order is the sequence in which the frozenset yields its members
RECURSIVE remove_non_word(_, _, _)
remove_non_word(cleaned, decisions, order) ==
    IF order = <<>> THEN <<cleaned, decisions>>
    ELSE IF \E i \in 1..Len(cleaned) : cleaned[i] = Head(order)
         THEN remove_non_word(replace_mark(cleaned, Head(order)),
                              Append(decisions, Removed(Head(order))), Tail(order))
         ELSE remove_non_word(cleaned, decisions, Tail(order))

\* str.split() without arguments: maximal runs of non-whitespace characters
RECURSIVE split_from(_, _, _, _)
split_from(text, i, current, tokens) ==
    IF i > Len(text)
    THEN IF current = <<>> THEN tokens ELSE Append(tokens, current)
    ELSE IF text[i] \in WHITESPACE
         THEN split_from(text, i + 1, <<>>,
                         IF current = <<>> THEN tokens ELSE Append(tokens, current))
         ELSE split_from(text, i + 1, Append(current, text[i]), tokens)

split(text) == split_from(text, 1, <<>>, <<>>)

\* str.strip() without arguments
RECURSIVE strip(_)
strip(word) ==
    IF word = <<>> THEN word
    ELSE IF Head(word) \in WHITESPACE THEN strip(Tail(word))
    ELSE IF word[Len(word)] \in WHITESPACE THEN strip(SubSeq(word, 1, Len(word) - 1))
    ELSE word

\* the methodology description, as the parts concatenated
methodology_text(include_particles, methodology_note) ==
    <<"Whitespace-delimited word counting">>
        \o (IF include_particles
            THEN <<" (particles counted as separate words)">>
            ELSE <<" (attached particles merged with base word)">>)
        \o (IF methodology_note # "" THEN <<". Note: ", methodology_note>> ELSE <<>>)

\* WordCounter.count_words(text, include_particles, methodology_note) in an
\* interpreter whose NON_WORD_CHARS iterates in the given order
count_words(text, include_particles, methodology_note, order) ==
    LET r == remove_non_word(text, <<>>, order)
        raw_words == split(r[1])
        decisions == Append(r[2], SplitInto(Len(raw_words)))
        stripped == [i \in 1..Len(raw_words) |-> strip(raw_words[i])]
        words == SelectSeq(stripped, LAMBDA w : w # <<>>)
    IN  [count |-> Len(words), words |-> words,
         methodology |-> methodology_text(include_particles, methodology_note),
         decisions |-> decisions]

\* WordCounter.split_words(text)
split_words(text, order) == count_words(text, TRUE, "", order).words

\* the for loop of get_word_positions from index i (0-based) on, then the
\* handling of the last word; a position is <<word, start, end>>
RECURSIVE get_word_positions_loop(_, _, _, _, _)
get_word_positions_loop(text, i, positions, current_word_start, current_word) ==
    IF i >= Len(text)
    THEN IF current_word # <<>>
         THEN Append(positions,
                     <<current_word,
                       IF current_word_start = None THEN 0 ELSE current_word_start[1],
                       Len(text)>>)
         ELSE positions
    ELSE LET char == text[i + 1]
         IN  IF char \in WORD_SEPARATORS \/ char \in NON_WORD_CHARS
             THEN IF current_word # <<>>
                  THEN get_word_positions_loop(text, i + 1,
                          Append(positions,
                                 <<current_word,
                                   IF current_word_start = None THEN 0
                                   ELSE current_word_start[1],
                                   i>>),
                          None, <<>>)
                  ELSE get_word_positions_loop(text, i + 1, positions,
                                               current_word_start, current_word)
             ELSE get_word_positions_loop(text, i + 1, positions,
                     IF current_word_start = None THEN Some(i) ELSE current_word_start,
                     Append(current_word, char))

\* WordCounter.get_word_positions(text)
get_word_positions(text) == get_word_positions_loop(text, 0, <<>>, None, <<>>)

\* " ".join(words)
RECURSIVE JoinSpace(_)
JoinSpace(words) ==
    IF words = <<>> THEN <<>>
    ELSE IF Len(words) = 1 THEN words[1]
    ELSE words[1] \o <<SPACE>> \o JoinSpace(Tail(words))

(***************************************************************************)
(* Inputs of WordCounter.                                                  *)
(***************************************************************************)
\* a letter, the space, the no-break space, the end-of-ayah mark U+06DD and
\* the pause sign U+06D6
WordChars == {1576, 32, 160, 1757, 1750}

WordTexts == BoundedSeq(WordChars, MaxWordLen)

\* a letter, the line feed, the tab and the zero-width space
LayoutChars == {1576, 10, 9, 8203}

LayoutTexts == BoundedSeq(LayoutChars, MaxWordLen - 1)

\* the marks that occur in WordTexts, and the other marks in a fixed order
WordMarks == WordChars \cap NON_WORD_CHARS

OtherMarks == <<1751, 1752, 1753, 1754, 1755, 1756, 1758, 1769>>

\* the orders in which frozenset NON_WORD_CHARS may yield its members: str
\* hashes are salted per interpreter start, so the order is fixed within one
\* interpreter and free between interpreters; only the relative order of the
\* marks occurring in a text can affect count_words
IterationOrders ==
    {p \o OtherMarks : p \in {q \in [1..Cardinality(WordMarks) -> WordMarks] :
                                 \A i, j \in DOMAIN q : q[i] = q[j] => i = j}}

NoResult == [count |-> 0, words |-> <<>>, methodology |-> <<>>, decisions |-> <<>>]

WcInit ==
    /\ wc_text \in WordTexts \cup LayoutTexts
    /\ wc_particles \in BOOLEAN
    /\ wc_order \in IterationOrders
    /\ wc_calls = {}
    /\ wc_result = NoResult
    /\ wc_again = NoResult
    /\ wc_repeat = NoResult
    /\ wc_positions = <<>>

WcIdle ==
    /\ wc_text = <<>>
    /\ wc_particles = TRUE
    /\ wc_order = <<>>
    /\ wc_calls = {}
    /\ wc_result = NoResult
    /\ wc_again = NoResult
    /\ wc_repeat = NoResult
    /\ wc_positions = <<>>

\* result = WordCounter().count_words(wc_text, wc_particles)
CountWords ==
    /\ "count_words" \notin wc_calls
    /\ wc_result' = count_words(wc_text, wc_particles, "", wc_order)
    /\ wc_calls' = wc_calls \cup {"count_words"}
    /\ UNCHANGED <<wc_text, wc_particles, wc_order, wc_again, wc_repeat, wc_positions>>
    /\ UNCHANGED wc_others

\* WordCounter().count_words(" ".join(result.words), wc_particles)
CountWordsCleaned ==
    /\ "count_words" \in wc_calls
    /\ "cleaned" \notin wc_calls
    /\ wc_again' = count_words(JoinSpace(wc_result.words), wc_particles, "", wc_order)
    /\ wc_calls' = wc_calls \cup {"cleaned"}
    /\ UNCHANGED <<wc_text, wc_particles, wc_order, wc_result, wc_repeat, wc_positions>>
    /\ UNCHANGED wc_others

\* WordCounter().get_word_positions(wc_text)
GetWordPositions ==
    /\ "get_word_positions" \notin wc_calls
    /\ wc_positions' = get_word_positions(wc_text)
    /\ wc_calls' = wc_calls \cup {"get_word_positions"}
    /\ UNCHANGED <<wc_text, wc_particles, wc_order, wc_result, wc_again, wc_repeat>>
    /\ UNCHANGED wc_others

\* the interpreter is started again (another run or another worker process)
Restart ==
    /\ "count_words" \in wc_calls
    /\ "repeat" \notin wc_calls
    /\ wc_order' \in IterationOrders
    /\ UNCHANGED <<wc_text, wc_particles, wc_calls, wc_result, wc_again, wc_repeat, wc_positions>>
    /\ UNCHANGED wc_others

\* a second WordCounter().count_words(wc_text, wc_particles)
CountWordsRepeat ==
    /\ "count_words" \in wc_calls
    /\ "repeat" \notin wc_calls
    /\ wc_repeat' = count_words(wc_text, wc_particles, "", wc_order)
    /\ wc_calls' = wc_calls \cup {"repeat"}
    /\ UNCHANGED <<wc_text, wc_particles, wc_order, wc_result, wc_again, wc_positions>>
    /\ UNCHANGED wc_others

(***************************************************************************)
(* TextChecksum.  Algorithm names and digests are strings of code points.  *)
(***************************************************************************)
sha256 == <<115, 104, 97, 50, 53, 54>>

sha384 == <<115, 104, 97, 51, 56, 52>>

sha512 == <<115, 104, 97, 53, 49, 50>>

sha3_256 == <<115, 104, 97, 51, 95, 50, 53, 54>>

sha3_512 == <<115, 104, 97, 51, 95, 53, 49, 50>>

md5 == <<109, 100, 53>>

SUPPORTED_ALGORITHMS == {sha256, sha384, sha512, sha3_256, sha3_512}

DEFAULT_ALGORITHM == sha256

COLON == 58

UNDERSCORE == 95

\* the characters int(value, 16) reads as digits: 0-9, a-f, A-F and the
\* Unicode decimal digits (here the Arabic-Indic ones)
HexDigits == (48..57) \cup (97..102) \cup (65..70) \cup (1632..1641) \cup (1776..1785)

\* int(value, 16) does not raise: surrounding whitespace, one sign, one 0x/0X
\* prefix, then digits with single underscores between them
is_hex(value) ==
    LET s == strip(value)
        unsigned == IF s # <<>> /\ Head(s) \in {43, 45} THEN Tail(s) ELSE s
        prefixed == Len(unsigned) >= 2 /\ unsigned[1] = 48 /\ unsigned[2] \in {120, 88}
        after == IF prefixed THEN SubSeq(unsigned, 3, Len(unsigned)) ELSE unsigned
        digits == IF prefixed /\ after # <<>> /\ Head(after) = UNDERSCORE
                  THEN Tail(after) ELSE after
    IN  /\ digits # <<>>
        /\ \A i \in 1..Len(digits) : digits[i] \in HexDigits \cup {UNDERSCORE}
        /\ digits[1] # UNDERSCORE
        /\ digits[Len(digits)] # UNDERSCORE
        /\ \A i \in 1..(Len(digits) - 1) :
              ~(digits[i] = UNDERSCORE /\ digits[i + 1] = UNDERSCORE)

\* TextChecksum(algorithm=, value=): the frozen dataclass, or the ValueError
\* of __post_init__
TextChecksum(algorithm, value) ==
    IF algorithm \notin SUPPORTED_ALGORITHMS THEN [error |-> "ValueError"]
    ELSE IF value = <<>> THEN [error |-> "ValueError"]
    ELSE IF ~is_hex(value) THEN [error |-> "ValueError"]
    ELSE [algorithm |-> algorithm, value |-> value]

\* text.encode("utf-8") of a string of Unicode scalar values
RECURSIVE encode_utf8(_)
encode_utf8(text) ==
    IF text = <<>> THEN <<>>
    ELSE LET c == Head(text)
             bytes == IF c < 128 THEN <<c>>
                      ELSE IF c < 2048 THEN <<192 + (c \div 64), 128 + (c % 64)>>
                      ELSE IF c < 65536
                           THEN <<224 + (c \div 4096), 128 + ((c \div 64) % 64), 128 + (c % 64)>>
                      ELSE <<240 + (c \div 262144), 128 + ((c \div 4096) % 64),
                             128 + ((c \div 64) % 64), 128 + (c % 64)>>
         IN  bytes \o encode_utf8(Tail(text))

\* one hexadecimal digit, lower case, as a code point
HexChar(n) == IF n < 10 THEN 48 + n ELSE 87 + n

\* bytes.hex()
RECURSIVE HexString(_)
HexString(data) ==
    IF data = <<>> THEN <<>>
    ELSE <<HexChar(Head(data) \div 16), HexChar(Head(data) % 16)>> \o HexString(Tail(data))

\* which hash function hashlib.new(algorithm) is
HashFunction(algorithm) ==
    CASE algorithm = sha256 -> 1
      [] algorithm = sha384 -> 2
      [] algorithm = sha512 -> 3
      [] algorithm = sha3_256 -> 4
      [] algorithm = sha3_512 -> 5

\* hashlib.new(algorithm) fed data, then hexdigest(): each hash function
\* taken as injective, different functions giving different digests
hexdigest(algorithm, data) == HexString(<<HashFunction(algorithm)>> \o data)

\* TextChecksum.compute(text, algorithm)
compute(text, algorithm) ==
    IF algorithm \notin SUPPORTED_ALGORITHMS THEN [error |-> "ValueError"]
    ELSE TextChecksum(algorithm, hexdigest(algorithm, encode_utf8(text)))

\* hmac.compare_digest(a, b) on two str: TypeError unless both are ASCII
compare_digest(a, b) ==
    IF \E i \in 1..Len(a) : a[i] >= 128 THEN [raised |-> "TypeError"]
    ELSE IF \E i \in 1..Len(b) : b[i] >= 128 THEN [raised |-> "TypeError"]
    ELSE [returned |-> (a = b)]

\* TextChecksum.verify hashing with DEFAULT_ALGORITHM
verify_default_algorithm(self, text) ==
    compare_digest(self.value, compute(text, DEFAULT_ALGORITHM).value)

\* TextChecksum.verify(self, text)
verify(self, text) ==
    compare_digest(self.value, compute(text, self.algorithm).value)

\* TextChecksum.matches(self, other)
matches(self, other) ==
    IF self.algorithm # other.algorithm THEN [returned |-> FALSE]
    ELSE compare_digest(self.value, other.value)

\* __str__ shortening the value the way __repr__ does
TextChecksum_str_truncated(self) ==
    self.algorithm \o <<COLON>>
        \o (IF Len(self.value) > 2 THEN SubSeq(self.value, 1, 2) ELSE self.value)

\* TextChecksum.__str__(self)
TextChecksum_str(self) == self.algorithm \o <<COLON>> \o self.value

\* checksum_str.split(":", 1)
split_colon(checksum_str) ==
    IF \E i \in 1..Len(checksum_str) : checksum_str[i] = COLON
    THEN LET k == CHOOSE i \in 1..Len(checksum_str) :
                     /\ checksum_str[i] = COLON
                     /\ \A j \in 1..(i - 1) : checksum_str[j] # COLON
         IN  <<SubSeq(checksum_str, 1, k - 1), SubSeq(checksum_str, k + 1, Len(checksum_str))>>
    ELSE <<checksum_str>>

\* TextChecksum.from_string(checksum_str)
from_string(checksum_str) ==
    LET parts == split_colon(checksum_str)
    IN  IF Len(parts) # 2 THEN [error |-> "ValueError"]
        ELSE TextChecksum(parts[1], parts[2])

(***************************************************************************)
(* Inputs of TextChecksum.                                                 *)
(***************************************************************************)
\* a Latin and an Arabic letter
ChecksumChars == {97, 1576}

ChecksumTexts == BoundedSeq(ChecksumChars, MaxChecksumLen)

AlgorithmArgs == SUPPORTED_ALGORITHMS \cup {md5}

\* f, g, the colon, the underscore and the Arabic-Indic digit one
DigestChars == {102, 103, COLON, UNDERSCORE, 1633}

DigestValues == BoundedSeq(DigestChars, MaxDigestLen)

NotCalled == [error |-> "none"]

CkInit ==
    /\ ck_text \in ChecksumTexts
    /\ ck_algorithm \in AlgorithmArgs
    /\ ck_value \in DigestValues
    /\ ck_calls = {}
    /\ ck_computed = NotCalled
    /\ ck_probe = <<>>
    /\ ck_verified = NotCalled
    /\ ck_made = NotCalled
    /\ ck_source = NotCalled
    /\ ck_restored = NotCalled

CkIdle ==
    /\ ck_text = <<>>
    /\ ck_algorithm = <<>>
    /\ ck_value = <<>>
    /\ ck_calls = {}
    /\ ck_computed = NotCalled
    /\ ck_probe = <<>>
    /\ ck_verified = NotCalled
    /\ ck_made = NotCalled
    /\ ck_source = NotCalled
    /\ ck_restored = NotCalled

\* c = TextChecksum.compute(ck_text, ck_algorithm)
Compute ==
    /\ "compute" \notin ck_calls
    /\ ck_computed' = compute(ck_text, ck_algorithm)
    /\ ck_calls' = ck_calls \cup {"compute"}
    /\ UNCHANGED <<ck_text, ck_algorithm, ck_value, ck_probe, ck_verified, ck_made, ck_source, ck_restored>>
    /\ UNCHANGED ck_others

\* c.verify(text) on the computed checksum
Verify ==
    /\ "compute" \in ck_calls
    /\ "error" \notin DOMAIN ck_computed
    /\ "verify" \notin ck_calls
    /\ \E text \in ChecksumTexts :
          /\ ck_probe' = text
          /\ ck_verified' = verify(ck_computed, text)
    /\ ck_calls' = ck_calls \cup {"verify"}
    /\ UNCHANGED <<ck_text, ck_algorithm, ck_value, ck_computed, ck_made, ck_source, ck_restored>>
    /\ UNCHANGED ck_others

\* TextChecksum(algorithm=ck_algorithm, value=ck_value)
MakeChecksum ==
    /\ "TextChecksum" \notin ck_calls
    /\ ck_made' = TextChecksum(ck_algorithm, ck_value)
    /\ ck_calls' = ck_calls \cup {"TextChecksum"}
    /\ UNCHANGED <<ck_text, ck_algorithm, ck_value, ck_computed, ck_probe, ck_verified, ck_source, ck_restored>>
    /\ UNCHANGED ck_others

\* TextChecksum.from_string(str(c)) for a checksum c that exists
FromString ==
    /\ "from_string" \notin ck_calls
    /\ \E c \in {ck_computed, ck_made} :
          /\ "error" \notin DOMAIN c
          /\ ck_source' = c
          /\ ck_restored' = from_string(TextChecksum_str(c))
    /\ ck_calls' = ck_calls \cup {"from_string"}
    /\ UNCHANGED <<ck_text, ck_algorithm, ck_value, ck_computed, ck_probe, ck_verified, ck_made>>
    /\ UNCHANGED ck_others

(***************************************************************************)
(* IntegrityGuard.                                                         *)
(***************************************************************************)
\* IntegrityGuard(fail_fast) under settings.fail_on_integrity_error
IntegrityGuard(fail_fast, fail_on_integrity_error) ==
    [fail_fast |-> IF fail_fast # None THEN fail_fast[1] ELSE fail_on_integrity_error]

\* IntegrityViolationError(expected=, actual=, context=)
IntegrityViolationError(expected, actual, context) ==
    [raised |-> "IntegrityViolationError", expected |-> expected,
     actual |-> actual, context |-> context]

\* IntegrityGuard.verify_text(self, text, expected_checksum, context); an
\* exception of matches propagates
verify_text(self, text, expected_checksum, context) ==
    LET actual_checksum == compute(text, expected_checksum.algorithm)
        same == matches(expected_checksum, actual_checksum)
    IN  IF "raised" \in DOMAIN same THEN same
        ELSE IF ~same.returned
             THEN IF self.fail_fast
                  THEN IntegrityViolationError(expected_checksum, actual_checksum, context)
                  ELSE [returned |-> FALSE]
             ELSE [returned |-> TRUE]

\* IntegrityGuard.verify_verse(self, text, checksum, location)
verify_verse(self, text, checksum, location) ==
    verify_text(self, text, checksum, <<"Verse ", location>>)

\* verify_full_quran checking the configured value even when it is empty
verify_full_quran_always(self, expected_checksum, full_text) ==
    LET expected == TextChecksum(sha256, expected_checksum)
    IN  IF "error" \in DOMAIN expected THEN expected
        ELSE verify_text(self, full_text, expected, "Complete Quran")

\* IntegrityGuard.verify_full_quran(self, full_text), expected_checksum being
\* self._expected_checksum; the ValueError of TextChecksum propagates
verify_full_quran(self, expected_checksum, full_text) ==
    IF expected_checksum = <<>> THEN [returned |-> TRUE]
    ELSE LET expected == TextChecksum(sha256, expected_checksum)
         IN  IF "error" \in DOMAIN expected THEN expected
             ELSE verify_text(self, full_text, expected, "Complete Quran")

(***************************************************************************)
(* Inputs of IntegrityGuard.                                               *)
(***************************************************************************)
\* settings.expected_quran_checksum: the default "", the SHA-256 digest of a
\* text, a digest written in upper case, a string that is no hexadecimal
\* number and an Arabic-Indic digit
ConfiguredChecksums ==
    {<<>>, <<70, 70>>, <<122>>, <<1633>>}
        \cup {hexdigest(sha256, encode_utf8(t)) : t \in ChecksumTexts}

\* checksums computed of some text, and two made by hand: an ASCII digest
\* and one of an Arabic-Indic digit, which int(value, 16) accepts
ExpectedChecksums ==
    {compute(t, a) : t \in ChecksumTexts, a \in SUPPORTED_ALGORITHMS}
        \cup {TextChecksum(sha256, v) : v \in {<<102, 102>>, <<1633>>}}

Contexts == {"", "Complete Quran"}

IgInit ==
    /\ ig_setting \in BOOLEAN
    /\ ig_guard \in {IntegrityGuard(f, ig_setting) : f \in {None, Some(TRUE), Some(FALSE)}}
    /\ ig_text \in ChecksumTexts
    /\ ig_expected \in ExpectedChecksums
    /\ ig_context \in Contexts
    /\ ig_calls = {}
    /\ ig_outcome = NotCalled
    /\ ig_verse = NotCalled
    /\ ig_configured \in ConfiguredChecksums
    /\ ig_full = NotCalled

IgIdle ==
    /\ ig_setting = TRUE
    /\ ig_guard = IntegrityGuard(None, TRUE)
    /\ ig_text = <<>>
    /\ ig_expected = NotCalled
    /\ ig_context = ""
    /\ ig_calls = {}
    /\ ig_outcome = NotCalled
    /\ ig_verse = NotCalled
    /\ ig_configured = <<>>
    /\ ig_full = NotCalled

\* guard.verify_text(ig_text, ig_expected, ig_context)
VerifyText ==
    /\ "verify_text" \notin ig_calls
    /\ ig_outcome' = verify_text(ig_guard, ig_text, ig_expected, ig_context)
    /\ ig_calls' = ig_calls \cup {"verify_text"}
    /\ UNCHANGED <<ig_setting, ig_guard, ig_text, ig_expected, ig_context, ig_verse,
                   ig_configured, ig_full>>
    /\ UNCHANGED ig_others

\* guard.verify_verse(ig_text, ig_expected, location)
VerifyVerse ==
    /\ "verify_verse" \notin ig_calls
    /\ \E location \in {"1:1", "2:255"} :
          ig_verse' = verify_verse(ig_guard, ig_text, ig_expected, location)
    /\ ig_calls' = ig_calls \cup {"verify_verse"}
    /\ UNCHANGED <<ig_setting, ig_guard, ig_text, ig_expected, ig_context, ig_outcome,
                   ig_configured, ig_full>>
    /\ UNCHANGED ig_others

\* guard.verify_full_quran(ig_text)
VerifyFullQuran ==
    /\ "verify_full_quran" \notin ig_calls
    /\ ig_full' = verify_full_quran(ig_guard, ig_configured, ig_text)
    /\ ig_calls' = ig_calls \cup {"verify_full_quran"}
    /\ UNCHANGED <<ig_setting, ig_guard, ig_text, ig_expected, ig_context, ig_outcome,
                   ig_verse, ig_configured>>
    /\ UNCHANGED ig_others

(***************************************************************************)
(* PostgresQuranRepository.verify_integrity over the stored verses.        *)
(***************************************************************************)
\* _model_to_verse(model, surah_model): location, Uthmani text and checksum
model_to_verse(model) ==
    [location |-> <<model.surah_number, model.verse_number>>,
     text_uthmani |-> model.text_uthmani,
     checksum |-> from_string(model.checksum)]

\* Verse.verify_integrity(self)
verse_verify_integrity(self) == verify(self.checksum, self.text_uthmani)

\* the IntegrityReport built at the end of verify_integrity (checked_at, the
\* time of the call, left out)
IntegrityReport(total_verses, failed_verses, all_text) ==
    [is_valid |-> (Len(failed_verses) = 0),
     total_verses |-> total_verses,
     failed_verses |-> failed_verses,
     expected_checksum |-> <<>>,
     actual_checksum |-> compute(all_text, DEFAULT_ALGORITHM).value,
     details |-> <<"Verified ", total_verses, " verses, ", Len(failed_verses), " failures">>]

(***************************************************************************)
(* Inputs of verify_integrity.                                             *)
(***************************************************************************)
\* rows of surah 1 whose stored checksum is the sha256 of some text, their
\* own or another
RowsOf(texts, stored) ==
    [i \in 1..Len(texts) |->
        [surah_number |-> 1, verse_number |-> i, text_uthmani |-> texts[i],
         checksum |-> TextChecksum_str(compute(stored[i], sha256))]]

VerseTexts == {<<97>>, <<1576>>}

RowSets ==
    UNION {{RowsOf(texts, stored) : texts \in [1..n -> VerseTexts],
                                    stored \in [1..n -> VerseTexts]} : n \in 0..MaxVerses}

NoReport == [error |-> "none"]

BtInit ==
    /\ bt_setting \in BOOLEAN
    /\ bt_rows \in RowSets
    /\ bt_pc = "streaming"
    /\ bt_total = 0
    /\ bt_failed = <<>>
    /\ bt_report = NoReport

BtIdle ==
    /\ bt_setting = TRUE
    /\ bt_rows = <<>>
    /\ bt_pc = "returned"
    /\ bt_total = 0
    /\ bt_failed = <<>>
    /\ bt_report = NoReport

\* one round of `async for verse in self.stream_verses()`
StreamVerse ==
    /\ bt_pc = "streaming"
    /\ bt_total < Len(bt_rows)
    /\ LET verse == model_to_verse(bt_rows[bt_total + 1])
       IN  /\ bt_total' = bt_total + 1
           /\ bt_failed' = IF ~verse_verify_integrity(verse).returned
                           THEN Append(bt_failed, verse.location)
                           ELSE bt_failed
    /\ UNCHANGED <<bt_setting, bt_rows, bt_pc, bt_report>>
    /\ UNCHANGED bt_others

\* the stream is exhausted: the overall checksum is computed and the report
\* returned
ReturnReport ==
    /\ bt_pc = "streaming"
    /\ bt_total = Len(bt_rows)
    /\ bt_report' = IntegrityReport(bt_total, bt_failed,
                        JoinLines([i \in 1..Len(bt_rows) |-> bt_rows[i].text_uthmani]))
    /\ bt_pc' = "returned"
    /\ UNCHANGED <<bt_setting, bt_rows, bt_total, bt_failed>>
    /\ UNCHANGED bt_others

(***************************************************************************)
(* VerseLocation.                                                          *)
(***************************************************************************)
MIN_SURAH == 1

MAX_SURAH == 114

MIN_VERSE == 1

MAX_VERSES_PER_SURAH ==
    <<7, 286, 200, 176, 120, 165, 206, 75, 129, 109,
      123, 111, 43, 52, 99, 128, 111, 110, 98, 135,
      112, 78, 118, 64, 77, 227, 93, 88, 69, 60,
      34, 30, 73, 54, 45, 83, 182, 88, 75, 85,
      54, 53, 89, 59, 37, 35, 38, 29, 18, 45,
      60, 49, 62, 55, 78, 96, 29, 22, 24, 13,
      14, 11, 11, 18, 12, 12, 30, 52, 52, 44,
      28, 28, 20, 56, 40, 31, 50, 40, 46, 42,
      29, 19, 36, 25, 22, 17, 19, 26, 30, 20,
      15, 21, 11, 8, 8, 19, 5, 8, 8, 11,
      11, 8, 3, 9, 5, 4, 7, 3, 6, 3,
      5, 4, 5, 6>>

\* MAX_VERSES_PER_SURAH.get(surah_number, default)
max_verses_get(surah_number, default) ==
    IF surah_number \in DOMAIN MAX_VERSES_PER_SURAH
    THEN MAX_VERSES_PER_SURAH[surah_number] ELSE default

\* VerseLocation(...) without the check against the table
VerseLocation_unbounded(surah_number, verse_number) ==
    IF ~(MIN_SURAH <= surah_number /\ surah_number <= MAX_SURAH)
    THEN [error |-> "ValueError"]
    ELSE IF verse_number < MIN_VERSE THEN [error |-> "ValueError"]
    ELSE [surah_number |-> surah_number, verse_number |-> verse_number]

\* VerseLocation(surah_number, verse_number): the frozen dataclass, or the
\* ValueError of __post_init__ (max_verses is not None when the surah is a
\* key of the table)
VerseLocation(surah_number, verse_number) ==
    IF ~(MIN_SURAH <= surah_number /\ surah_number <= MAX_SURAH)
    THEN [error |-> "ValueError"]
    ELSE IF verse_number < MIN_VERSE THEN [error |-> "ValueError"]
    ELSE IF /\ surah_number \in DOMAIN MAX_VERSES_PER_SURAH
            /\ verse_number > max_verses_get(surah_number, 0)
         THEN [error |-> "ValueError"]
         ELSE [surah_number |-> surah_number, verse_number |-> verse_number]

\* the digits int() reads: 0-9 and the Arabic-Indic digits, with their values
DecimalDigits == (48..57) \cup (1632..1641)

DigitValue(c) == IF c < 128 THEN c - 48 ELSE c - 1632

\* the number written by digits and single underscores, read left to right
RECURSIVE digits_value(_, _)
digits_value(digits, acc) ==
    IF digits = <<>> THEN acc
    ELSE IF Head(digits) = UNDERSCORE THEN digits_value(Tail(digits), acc)
    ELSE digits_value(Tail(digits), 10 * acc + DigitValue(Head(digits)))

\* int(s): <<value>>, or None where int raises ValueError
int(s) ==
    LET t == strip(s)
        negative == t # <<>> /\ Head(t) = 45
        digits == IF t # <<>> /\ Head(t) \in {43, 45} THEN Tail(t) ELSE t
        well_formed ==
            /\ digits # <<>>
            /\ \A i \in 1..Len(digits) : digits[i] \in DecimalDigits \cup {UNDERSCORE}
            /\ digits[1] # UNDERSCORE
            /\ digits[Len(digits)] # UNDERSCORE
            /\ \A i \in 1..(Len(digits) - 1) :
                  ~(digits[i] = UNDERSCORE /\ digits[i + 1] = UNDERSCORE)
    IN  IF ~well_formed THEN None
        ELSE IF negative THEN Some(0 - digits_value(digits, 0))
        ELSE Some(digits_value(digits, 0))

\* s.split(":"): the pieces between the colons
RECURSIVE split_colons(_, _, _)
split_colons(s, current, parts) ==
    IF s = <<>> THEN Append(parts, current)
    ELSE IF Head(s) = COLON THEN split_colons(Tail(s), <<>>, Append(parts, current))
    ELSE split_colons(Tail(s), Append(current, Head(s)), parts)

\* VerseLocation.from_string(location_str)
VerseLocation_from_string(location_str) ==
    LET parts == split_colons(strip(location_str), <<>>, <<>>)
    IN  IF Len(parts) # 2 THEN [error |-> "ValueError"]
        ELSE LET surah == int(parts[1])
                 verse == int(parts[2])
             IN  IF surah = None \/ verse = None THEN [error |-> "ValueError"]
                 ELSE VerseLocation(surah[1], verse[1])

\* next_verse comparing with > where the code has >=
next_verse_past_end(self) ==
    LET max_verses == max_verses_get(self.surah_number, 0)
    IN  IF self.verse_number > max_verses THEN None
        ELSE Some(VerseLocation(self.surah_number, self.verse_number + 1))

\* VerseLocation.next_verse(self): None, or the location constructed
next_verse(self) ==
    LET max_verses == max_verses_get(self.surah_number, 0)
    IN  IF self.verse_number >= max_verses THEN None
        ELSE Some(VerseLocation(self.surah_number, self.verse_number + 1))

\* VerseLocation.previous_verse(self)
previous_verse(self) ==
    IF self.verse_number <= MIN_VERSE THEN None
    ELSE Some(VerseLocation(self.surah_number, self.verse_number - 1))

\* VerseLocation.is_first_verse(self)
is_first_verse(self) == self.verse_number = MIN_VERSE

\* VerseLocation.is_last_verse(self)
is_last_verse(self) == self.verse_number = max_verses_get(self.surah_number, 0)

(***************************************************************************)
(* Inputs of VerseLocation.                                                *)
(***************************************************************************)
\* the numbers around both ends of the range and the surahs whose last verse
\* lies within two of MaxVerseArg
SurahArgs ==
    ((MIN_SURAH - 2)..MIN_SURAH) \cup (MAX_SURAH..(MAX_SURAH + 2))
        \cup {s \in DOMAIN MAX_VERSES_PER_SURAH : MAX_VERSES_PER_SURAH[s] <= MaxVerseArg + 2}

VerseArgs == (MIN_VERSE - 2)..MaxVerseArg

\* str(n) of an integer
RECURSIVE NaturalString(_)
NaturalString(n) ==
    IF n < 10 THEN <<48 + n>> ELSE NaturalString(n \div 10) \o <<48 + (n % 10)>>

IntegerString(n) == IF n < 0 THEN <<45>> \o NaturalString(0 - n) ELSE NaturalString(n)

\* ways of writing the pair as a string: "s:v", " s : v ", "0s:0v" and the
\* malformed "s", "s:v:1" and "s:x"
LocationStrings(s, v) ==
    {IntegerString(s) \o <<COLON>> \o IntegerString(v),
     <<SPACE>> \o IntegerString(s) \o <<SPACE, COLON, SPACE>> \o IntegerString(v) \o <<SPACE>>,
     <<43, 48>> \o IntegerString(s) \o <<COLON, 48, 48>> \o IntegerString(v),
     IntegerString(s),
     IntegerString(s) \o <<COLON>> \o IntegerString(v) \o <<COLON, 49>>,
     IntegerString(s) \o <<COLON, 120>>}

VlInit ==
    /\ vl_surah \in SurahArgs
    /\ vl_verse \in VerseArgs
    /\ vl_calls = {}
    /\ vl_made = NotCalled
    /\ vl_string = <<>>
    /\ vl_parsed = NotCalled
    /\ vl_loc = None
    /\ vl_hist = <<>>

VlIdle ==
    /\ vl_surah = 0
    /\ vl_verse = 0
    /\ vl_calls = {}
    /\ vl_made = NotCalled
    /\ vl_string = <<>>
    /\ vl_parsed = NotCalled
    /\ vl_loc = None
    /\ vl_hist = <<>>

\* loc = VerseLocation(vl_surah, vl_verse)
MakeLocation ==
    /\ "VerseLocation" \notin vl_calls
    /\ vl_made' = VerseLocation(vl_surah, vl_verse)
    /\ vl_loc' = IF "error" \in DOMAIN vl_made' THEN None ELSE Some(vl_made')
    /\ vl_calls' = vl_calls \cup {"VerseLocation"}
    /\ UNCHANGED <<vl_surah, vl_verse, vl_string, vl_parsed, vl_hist>>
    /\ UNCHANGED vl_others

\* VerseLocation.from_string(s) for a string written from the pair
LocationFromString ==
    /\ "from_string" \notin vl_calls
    /\ \E s \in LocationStrings(vl_surah, vl_verse) :
          /\ vl_string' = s
          /\ vl_parsed' = VerseLocation_from_string(s)
    /\ vl_calls' = vl_calls \cup {"from_string"}
    /\ UNCHANGED <<vl_surah, vl_verse, vl_made, vl_loc, vl_hist>>
    /\ UNCHANGED vl_others

\* the last two calls, the newest last
Remember(hist, call) == IF hist = <<>> THEN <<call>> ELSE <<hist[Len(hist)], call>>

\* loc.next_verse(); the caller moves on when a location is returned
NextVerse ==
    /\ vl_loc # None
    /\ LET ret == next_verse(vl_loc[1])
       IN  /\ vl_hist' = Remember(vl_hist, [op |-> "next", at |-> vl_loc[1], ret |-> ret])
           /\ vl_loc' = IF ret = None \/ "error" \in DOMAIN ret[1] THEN vl_loc ELSE ret
    /\ UNCHANGED <<vl_surah, vl_verse, vl_calls, vl_made, vl_string, vl_parsed>>
    /\ UNCHANGED vl_others

\* loc.previous_verse(); the caller moves on when a location is returned
PreviousVerse ==
    /\ vl_loc # None
    /\ LET ret == previous_verse(vl_loc[1])
       IN  /\ vl_hist' = Remember(vl_hist, [op |-> "previous", at |-> vl_loc[1], ret |-> ret])
           /\ vl_loc' = IF ret = None \/ "error" \in DOMAIN ret[1] THEN vl_loc ELSE ret
    /\ UNCHANGED <<vl_surah, vl_verse, vl_calls, vl_made, vl_string, vl_parsed>>
    /\ UNCHANGED vl_others

(***************************************************************************)
(* EntityVariantMatcher (infrastructure/text/entity_matcher.py).           *)
(***************************************************************************)
\* single clitics: diacritized, with tatweel, bare
MATCHABLE_PREFIXES ==
    {<<1576, 1616>>, <<1576, 1600>>, <<1576>>,
     <<1608, 1614>>, <<1608, 1600>>, <<1608>>,
     <<1601, 1614>>, <<1601, 1600>>, <<1601>>,
     <<1604, 1616>>, <<1604, 1600>>, <<1604>>,
     <<1603, 1614>>, <<1603, 1600>>, <<1603>>,
     <<1571, 1614>>, <<1571>>,
     <<1610, 1614, 1575>>, <<1610, 1575>>}

\* two clitics: diacritized, bare
COMBINED_PREFIXES ==
    {<<1608, 1614, 1576, 1616>>, <<1608, 1576>>,
     <<1601, 1614, 1576, 1616>>, <<1601, 1576>>,
     <<1608, 1614, 1604, 1616>>, <<1608, 1604>>,
     <<1601, 1614, 1604, 1616>>, <<1601, 1604>>,
     <<1608, 1614, 1603, 1614>>, <<1608, 1603>>,
     <<1601, 1614, 1603, 1614>>, <<1601, 1603>>,
     <<1571, 1614, 1576, 1616>>, <<1571, 1576>>,
     <<1571, 1614, 1601, 1614>>, <<1571, 1601>>,
     <<1571, 1614, 1608, 1614>>, <<1571, 1608>>}

ALL_PREFIXES == MATCHABLE_PREFIXES \cup COMBINED_PREFIXES

\* the two spellings of the definite article that _generate_all_forms tests
DEFINITE_ARTICLES == {<<1575, 1604>>, <<1649, 1604>>}

\* the prefixes _generate_all_forms puts before a word without its article
ARTICLE_PREFIXES ==
    {<<1604, 1616, 1604>>, <<1604, 1604>>,
     <<1576, 1616, 1575, 1604>>, <<1576, 1575, 1604>>,
     <<1608, 1614, 1575, 1604>>, <<1608, 1575, 1604>>,
     <<1601, 1614, 1575, 1604>>, <<1601, 1575, 1604>>,
     <<1603, 1614, 1575, 1604>>, <<1603, 1575, 1604>>}

\* the marks _strip_tashkeel removes: U+064B..U+0655 and U+0670
EntityVariantMatcher_TASHKEEL == (1611..1621) \cup {1648}

strip_tashkeel(text) ==
    LET kept(c) == c \notin EntityVariantMatcher_TASHKEEL
    IN  SelectSeq(text, kept)

\* word.startswith(prefix)
startswith(word, prefix) ==
    /\ Len(prefix) <= Len(word)
    /\ SubSeq(word, 1, Len(prefix)) = prefix

\* word[n:]
slice_from(word, n) == SubSeq(word, n + 1, Len(word))

generate_all_forms(base_word) ==
    {base_word}
        \cup {strip_tashkeel(prefix) \o base_word : prefix \in MATCHABLE_PREFIXES}
        \cup {prefix \o base_word : prefix \in MATCHABLE_PREFIXES}
        \cup {strip_tashkeel(prefix) \o base_word : prefix \in COMBINED_PREFIXES}
        \cup {prefix \o base_word : prefix \in COMBINED_PREFIXES}
        \cup (IF \E article \in DEFINITE_ARTICLES : startswith(base_word, article)
              THEN LET base_without_al == slice_from(base_word, 2)
                   IN  {strip_tashkeel(prefix) \o base_without_al : prefix \in ARTICLE_PREFIXES}
                           \cup {prefix \o base_without_al : prefix \in ARTICLE_PREFIXES}
              ELSE {})

\* EntityVariantMatcher(base_word): __init__ stores the word and its forms
EntityVariantMatcher(base_word) ==
    [base_word |-> base_word, all_forms |-> generate_all_forms(base_word)]

\* matches without the comparison modulo diacritics
EntityVariantMatcher_matches_exact(self, word) == word \in self.all_forms

\* matcher.matches(word)
EntityVariantMatcher_matches(self, word) ==
    IF word \in self.all_forms
    THEN TRUE
    ELSE strip_tashkeel(word) \in {strip_tashkeel(form) : form \in self.all_forms}

\* lexicographic order of two strings
RECURSIVE StringLess(_, _)
StringLess(a, b) ==
    IF b = <<>> THEN FALSE
    ELSE IF a = <<>> THEN TRUE
    ELSE IF a[1] # b[1] THEN a[1] < b[1]
    ELSE StringLess(Tail(a), Tail(b))

\* the orders in which a run may iterate over a frozenset of strings: string
\* hashes are seeded per interpreter run, so the order is fixed within a run
\* and free across runs; the two orders meet every pair of entries both ways
PrefixOrders == {"ascending", "descending"}

RECURSIVE iterate(_, _)
iterate(set, order) ==
    IF set = {} THEN <<>>
    ELSE LET first == CHOOSE x \in set : \A y \in set \ {x} :
                          IF order = "ascending" THEN StringLess(x, y) ELSE StringLess(y, x)
         IN  <<first>> \o iterate(set \ {first}, order)

\* the entries of length k and then the shorter ones, each group in the given order
RECURSIVE longest_first(_, _)
longest_first(prefixes, k) ==
    IF k < 0 THEN <<>>
    ELSE LET has_len(p) == Len(p) = k
         IN  SelectSeq(prefixes, has_len) \o longest_first(prefixes, k - 1)

\* the entries of length k and then the longer ones
RECURSIVE shortest_first(_, _, _)
shortest_first(prefixes, k, max) ==
    IF k > max THEN <<>>
    ELSE LET has_len(p) == Len(p) = k
         IN  SelectSeq(prefixes, has_len) \o shortest_first(prefixes, k + 1, max)

LongestLen(prefixes) ==
    CHOOSE n \in 0..Len(prefixes) + 4 :
        /\ \A i \in 1..Len(prefixes) : Len(prefixes[i]) <= n
        /\ (prefixes = <<>> /\ n = 0) \/ (\E i \in 1..Len(prefixes) : Len(prefixes[i]) = n)

\* sorted(prefixes, key=len) without reverse=True
sorted_by_len(prefixes) == shortest_first(prefixes, 0, LongestLen(prefixes))

\* sorted(prefixes, key=len, reverse=True): a stable sort
sorted_by_len_reverse(prefixes) == longest_first(prefixes, LongestLen(prefixes))

\* the list extract_prefix walks, for each iteration order of ALL_PREFIXES
sorted_prefixes ==
    [order \in PrefixOrders |-> sorted_by_len_reverse(iterate(ALL_PREFIXES, order))]

\* the for loop of extract_prefix from entry i on; None when it falls through
RECURSIVE extract_prefix_loop(_, _, _, _)
extract_prefix_loop(self, word, prefixes, i) ==
    IF i > Len(prefixes) THEN None
    ELSE LET prefix == prefixes[i]
             clean_prefix == strip_tashkeel(prefix)
             actual_prefix == IF startswith(word, prefix) THEN prefix ELSE clean_prefix
             remainder == slice_from(word, Len(actual_prefix))
         IN  IF /\ startswith(word, prefix) \/ startswith(word, clean_prefix)
                /\ strip_tashkeel(remainder) = strip_tashkeel(self.base_word)
             THEN <<actual_prefix, remainder>>
             ELSE extract_prefix_loop(self, word, prefixes, i + 1)

\* matcher.extract_prefix(word): None or the pair (prefix, remainder)
extract_prefix(self, word, order) ==
    IF ~EntityVariantMatcher_matches(self, word) THEN None
    ELSE LET found == extract_prefix_loop(self, word, sorted_prefixes[order], 1)
         IN  IF found # None THEN found
             ELSE IF EntityVariantMatcher_matches(self, word) THEN <<<<>>, word>>
             ELSE None

\* letters and marks of the canonical words
BaseChars == {1575, 1604, 1576, 1616}

BaseWords == BoundedSeq(BaseChars, MaxBaseLen)

\* letters and marks of the freely written candidates
CandidateChars == {1575, 1604, 1576, 1608, 1616}

\* a word with a fatha written after its first letter
with_mark(w) == IF w = <<>> THEN w ELSE <<w[1], 1614>> \o Tail(w)

\* a word as written, with one more mark, without marks, without its first
\* two letters, and with one more letter
Variants(w) == {w, with_mark(w), strip_tashkeel(w), slice_from(w, 2), w \o <<1576>>}

CandidatePrefixes == {<<>>} \cup ALL_PREFIXES \cup ARTICLE_PREFIXES

\* candidates: every prefix before every variant, and every short string
Candidates(w) ==
    {p \o v : p \in CandidatePrefixes, v \in Variants(w)}
        \cup BoundedSeq(CandidateChars, MaxCandidateLen)

EmInit ==
    /\ em_base \in BaseWords
    /\ em_matcher = EntityVariantMatcher(em_base)
    /\ em_order \in PrefixOrders
    /\ em_word \in Candidates(em_base)
    /\ em_calls = {}
    /\ em_matched = FALSE
    /\ em_extracted = None

EmIdle ==
    /\ em_base = <<>>
    /\ em_matcher = [base_word |-> <<>>, all_forms |-> {}]
    /\ em_order = "ascending"
    /\ em_word = <<>>
    /\ em_calls = {}
    /\ em_matched = FALSE
    /\ em_extracted = None

\* matcher.matches(em_word)
Matches ==
    /\ "matches" \notin em_calls
    /\ em_matched' = EntityVariantMatcher_matches(em_matcher, em_word)
    /\ em_calls' = em_calls \cup {"matches"}
    /\ UNCHANGED <<em_base, em_matcher, em_order, em_word, em_extracted>>
    /\ UNCHANGED em_others

\* matcher.extract_prefix(em_word)
ExtractPrefix ==
    /\ "extract_prefix" \notin em_calls
    /\ em_extracted' = extract_prefix(em_matcher, em_word, em_order)
    /\ em_calls' = em_calls \cup {"extract_prefix"}
    /\ UNCHANGED <<em_base, em_matcher, em_order, em_word, em_matched>>
    /\ UNCHANGED em_others

(***************************************************************************)
(* scripts/seed_database.py and the read-back of what it stores.           *)
(***************************************************************************)
\* compute_checksum(text): the bare hexadecimal SHA-256 digest
compute_checksum(text) == hexdigest(sha256, encode_utf8(text))

\* the VerseData extract_verse_metadata builds for verse_num of surah_num
\* (the fields the read-back uses)
VerseData(surah_num, verse_num, text_uthmani) ==
    [surah_number |-> surah_num, verse_number |-> verse_num,
     text_uthmani |-> text_uthmani, checksum |-> compute_checksum(text_uthmani)]

\* compute_surah_aggregates: the checksum given to the surah of surah_verses
compute_surah_aggregates(surah_verses) ==
    LET all_text == JoinSpace([i \in 1..Len(surah_verses) |-> surah_verses[i].text_uthmani])
    IN  compute_checksum(all_text)

\* _model_to_verse followed by Verse.verify_integrity; the ValueError of
\* TextChecksum.from_string propagates
read_verse(model) ==
    LET verse == model_to_verse(model)
    IN  IF "error" \in DOMAIN verse.checksum THEN verse.checksum
        ELSE verse_verify_integrity(verse)

\* Surah.verify_integrity(self)
surah_verify_integrity(self) ==
    IF \E i \in 1..Len(self.verses) : ~verse_verify_integrity(self.verses[i]).returned
    THEN [returned |-> FALSE]
    ELSE verify(self.checksum,
                JoinLines([i \in 1..Len(self.verses) |-> self.verses[i].text_uthmani]))

\* get_surah (the verses converted first, then the surah checksum parsed)
\* followed by Surah.verify_integrity
read_surah(verse_models, surah_checksum) ==
    LET verses == [i \in 1..Len(verse_models) |-> model_to_verse(verse_models[i])]
        checksum == from_string(surah_checksum)
    IN  IF \E i \in 1..Len(verses) : "error" \in DOMAIN verses[i].checksum
        THEN [error |-> "ValueError"]
        ELSE IF "error" \in DOMAIN checksum THEN checksum
        ELSE surah_verify_integrity([verses |-> verses, checksum |-> checksum])

\* texts of one and of two words
SeedVerseTexts == {<<97>>, <<1576>>, <<1576, SPACE, 1576>>}

SeedTexts == UNION {[1..n -> SeedVerseTexts] : n \in 1..MaxSeedVerses}

SdInit ==
    /\ sd_texts \in SeedTexts
    /\ sd_verses = <<>>
    /\ sd_surah = None
    /\ sd_pc = "extracting"
    /\ sd_read = <<>>
    /\ sd_surah_read = NotCalled

SdIdle ==
    /\ sd_texts = <<>>
    /\ sd_verses = <<>>
    /\ sd_surah = None
    /\ sd_pc = "idle"
    /\ sd_read = <<>>
    /\ sd_surah_read = NotCalled

\* one round of the verse loop of extract_verse_metadata
ExtractVerse ==
    /\ sd_pc = "extracting"
    /\ Len(sd_verses) < Len(sd_texts)
    /\ sd_verses' = Append(sd_verses,
                           VerseData(1, Len(sd_verses) + 1, sd_texts[Len(sd_verses) + 1]))
    /\ UNCHANGED <<sd_texts, sd_surah, sd_pc, sd_read, sd_surah_read>>
    /\ UNCHANGED sd_others

\* compute_surah_aggregates(surahs, verses) once every verse is extracted
ComputeSurahAggregates ==
    /\ sd_pc = "extracting"
    /\ Len(sd_verses) = Len(sd_texts)
    /\ sd_surah' = Some(compute_surah_aggregates(sd_verses))
    /\ sd_pc' = "aggregated"
    /\ UNCHANGED <<sd_texts, sd_verses, sd_read, sd_surah_read>>
    /\ UNCHANGED sd_others

\* insert_surahs and insert_verses: the checksums are stored as computed
InsertRows ==
    /\ sd_pc = "aggregated"
    /\ sd_pc' = "stored"
    /\ UNCHANGED <<sd_texts, sd_verses, sd_surah, sd_read, sd_surah_read>>
    /\ UNCHANGED sd_others

\* the next stored verse is read back and verified
ReadVerse ==
    /\ sd_pc = "stored"
    /\ Len(sd_read) < Len(sd_verses)
    /\ sd_read' = Append(sd_read, read_verse(sd_verses[Len(sd_read) + 1]))
    /\ UNCHANGED <<sd_texts, sd_verses, sd_surah, sd_pc, sd_surah_read>>
    /\ UNCHANGED sd_others

\* the stored surah is read back and verified
ReadSurah ==
    /\ sd_pc = "stored"
    /\ sd_surah_read = NotCalled
    /\ sd_surah_read' = read_surah(sd_verses, sd_surah[1])
    /\ UNCHANGED <<sd_texts, sd_verses, sd_surah, sd_pc, sd_read>>
    /\ UNCHANGED sd_others

(***************************************************************************)
(* Concurrent calls on shared service instances: two threads, each inside  *)
(* one method call, interleaved between the rounds of the loops. The       *)
(* accumulators of a call are local variables of its frame.                *)
(***************************************************************************)
Threads == {1, 2}

Services == {"count_letters", "count_words", "calculate", "normalize", "matches"}

\* the canonical word of the shared EntityVariantMatcher
SharedBaseWord == <<1576>>

\* the instance attributes: LetterCounter, WordCounter, AbjadCalculator and
\* ArabicNormalizer have none (their tables are class constants);
\* EntityVariantMatcher.__init__ sets _base_word and _all_forms
SharedInstances ==
    [s \in Services |->
        IF s = "matches"
        THEN <<EntityVariantMatcher(SharedBaseWord).base_word,
               EntityVariantMatcher(SharedBaseWord).all_forms>>
        ELSE <<>>]

\* the part of count_words after the loop over NON_WORD_CHARS
count_words_finish(cleaned, decisions, include_particles, methodology_note) ==
    LET raw_words == split(cleaned)
        all_decisions == Append(decisions, SplitInto(Len(raw_words)))
        stripped == [i \in 1..Len(raw_words) |-> strip(raw_words[i])]
        nonempty(w) == w # <<>>
        words == SelectSeq(stripped, nonempty)
    IN  [count |-> Len(words), words |-> words,
         methodology |-> methodology_text(include_particles, methodology_note),
         decisions |-> all_decisions]

\* the k-th guarded step of normalize
normalize_step(k, text, level) ==
    IF k = 1 THEN (IF StrGE(level, TASHKEEL_REMOVED) THEN remove_tashkeel(text) ELSE text)
    ELSE IF k = 2 THEN (IF StrGE(level, HAMZA_UNIFIED) THEN unify_hamza(text) ELSE text)
    ELSE IF k = 3 THEN (IF StrGE(level, ALIF_UNIFIED) THEN unify_alif(text) ELSE text)
    ELSE IF k = 4 THEN (IF StrGE(level, YA_UNIFIED) THEN unify_ya(text) ELSE text)
    ELSE (IF level = FULL THEN full_normalize(text) ELSE text)

\* the frame of a call that has not run yet: the arguments and the initial
\* values of the local variables
new_frame(service, text) ==
    [service |-> service, text |-> text, round |-> 0, done |-> FALSE,
     result |-> <<>>,
     locals |-> IF service = "count_words" THEN <<text, <<>>>>
                ELSE IF service = "calculate" THEN <<<<>>, 0>>
                ELSE IF service = "count_letters" THEN <<0>>
                ELSE IF service = "normalize" THEN <<text>>
                ELSE <<>>]

return(frame, value) == [frame EXCEPT !.done = TRUE, !.result = value]

continue(frame, locals) == [frame EXCEPT !.round = @ + 1, !.locals = locals]

\* one round of the call of a frame: a round of its loop, or its return
call_round(shared, frame, order) ==
    LET text == frame.text
        locals == frame.locals
        k == frame.round
    IN  IF frame.service = "count_words"
        THEN IF k < Len(order)
             THEN continue(frame, remove_non_word(locals[1], locals[2], <<order[k + 1]>>))
             ELSE return(frame, count_words_finish(locals[1], locals[2], TRUE, ""))
        ELSE IF frame.service = "calculate"
        THEN IF k < Len(text)
             THEN continue(frame, calculate_loop(<<text[k + 1]>>, values_of(None), TRUE,
                                                 locals[1], locals[2]))
             ELSE return(frame, AbjadValue(MASHRIQI, locals[2], locals[1]))
        ELSE IF frame.service = "count_letters"
        THEN LET rules == get_counting_rules(UTHMANI_FULL, None, None)
             IN  IF k < Len(text)
                 THEN continue(frame, <<locals[1] + count_loop(<<text[k + 1]>>, rules[1], rules[2])>>)
                 ELSE return(frame, locals[1])
        ELSE IF frame.service = "normalize"
        THEN IF k < 5
             THEN continue(frame, <<normalize_step(k + 1, locals[1], FULL)>>)
             ELSE return(frame, locals[1])
        ELSE LET all_forms == shared["matches"][2]
             IN  IF k = 0
                 THEN IF text \in all_forms THEN return(frame, TRUE)
                      ELSE continue(frame, <<strip_tashkeel(text)>>)
                 ELSE return(frame, locals[1] \in {strip_tashkeel(form) : form \in all_forms})

\* a round that also leaves its locals on the instance
call_step_on_instance(shared, frame, order) ==
    [shared |-> [shared EXCEPT ![frame.service] = Append(@, frame.locals)],
     frame |-> call_round(shared, frame, order)]

\* a round of a call: the instances are only read
call_step(shared, frame, order) ==
    [shared |-> shared, frame |-> call_round(shared, frame, order)]

\* ba and the pause sign U+06D6
SharedChars == {1576, 1750}

SharedTexts == BoundedSeq(SharedChars, MaxSharedLen)

CcInit ==
    /\ cc_shared = SharedInstances
    /\ cc_order \in IterationOrders
    /\ cc_frame \in [Threads -> {new_frame(s, t) : s \in Services, t \in SharedTexts}]
    /\ cc_overlap = FALSE

CcIdle ==
    /\ cc_shared = <<>>
    /\ cc_order = <<>>
    /\ cc_frame = <<>>
    /\ cc_overlap = FALSE

\* thread t runs one round of its call
CallStep(t) ==
    /\ ~cc_frame[t].done
    /\ LET step == call_step(cc_shared, cc_frame[t], cc_order)
       IN  /\ cc_shared' = step.shared
           /\ cc_frame' = [cc_frame EXCEPT ![t] = step.frame]
    /\ cc_overlap' = (cc_overlap \/ \E u \in Threads \ {t} :
                                        cc_frame[u].round > 0 /\ ~cc_frame[u].done)
    /\ UNCHANGED cc_order
    /\ UNCHANGED cc_others

\* some thread runs
Schedule == \E t \in Threads : CallStep(t)

(***************************************************************************)
(* Specifications, one per component; the other components stay idle.      *)
(***************************************************************************)
InitNormalizer == NormInit /\ LcIdle /\ AnIdle /\ AbIdle /\ AvIdle /\ WcIdle /\ CkIdle /\ IgIdle /\ BtIdle /\ VlIdle /\ EmIdle /\ SdIdle /\ CcIdle

NextNormalizer == Normalize \/ NormalizeAgain

SpecNormalizer == InitNormalizer /\ [][NextNormalizer]_vars

InitLetters == LcInit /\ NormIdle /\ AnIdle /\ AbIdle /\ AvIdle /\ WcIdle /\ CkIdle /\ IgIdle /\ BtIdle /\ VlIdle /\ EmIdle /\ SdIdle /\ CcIdle

NextLetters == CountLetters \/ CountLettersDetailed \/ GetLetterFrequency

SpecLetters == InitLetters /\ [][NextLetters]_vars

InitAnalyzer == AnInit /\ NormIdle /\ LcIdle /\ AbIdle /\ AvIdle /\ WcIdle /\ CkIdle /\ IgIdle /\ BtIdle /\ VlIdle /\ EmIdle /\ SdIdle /\ CcIdle

NextAnalyzer == ServiceCountLetters \/ EndpointCountLetters \/ CacheExpire

SpecAnalyzer == InitAnalyzer /\ [][NextAnalyzer]_vars

InitAbjad == AbInit /\ NormIdle /\ LcIdle /\ AnIdle /\ AvIdle /\ WcIdle /\ CkIdle /\ IgIdle /\ BtIdle /\ VlIdle /\ EmIdle /\ SdIdle /\ CcIdle

NextAbjad == Calculate \/ GetValue

SpecAbjad == InitAbjad /\ [][NextAbjad]_vars

InitAbjadValue == AvInit /\ NormIdle /\ LcIdle /\ AnIdle /\ AbIdle /\ WcIdle /\ CkIdle /\ IgIdle /\ BtIdle /\ VlIdle /\ EmIdle /\ SdIdle /\ CcIdle

NextAbjadValue == Construct \/ ObjectDigitalRoot \/ DigitalRoot \/ Factorize

SpecAbjadValue == InitAbjadValue /\ [][NextAbjadValue]_vars

InitWords == WcInit /\ NormIdle /\ LcIdle /\ AnIdle /\ AbIdle /\ AvIdle /\ CkIdle /\ IgIdle /\ BtIdle /\ VlIdle /\ EmIdle /\ SdIdle /\ CcIdle

NextWords == CountWords \/ CountWordsCleaned \/ Restart \/ CountWordsRepeat \/ GetWordPositions

SpecWords == InitWords /\ [][NextWords]_vars

InitChecksum == CkInit /\ NormIdle /\ LcIdle /\ AnIdle /\ AbIdle /\ AvIdle /\ WcIdle /\ IgIdle /\ BtIdle /\ VlIdle /\ EmIdle /\ SdIdle /\ CcIdle

NextChecksum == Compute \/ Verify \/ MakeChecksum \/ FromString

SpecChecksum == InitChecksum /\ [][NextChecksum]_vars

InitGuard == IgInit /\ NormIdle /\ LcIdle /\ AnIdle /\ AbIdle /\ AvIdle /\ WcIdle /\ CkIdle /\ BtIdle /\ VlIdle /\ EmIdle /\ SdIdle /\ CcIdle

NextGuard == VerifyText \/ VerifyVerse \/ VerifyFullQuran

SpecGuard == InitGuard /\ [][NextGuard]_vars

InitBatch == BtInit /\ NormIdle /\ LcIdle /\ AnIdle /\ AbIdle /\ AvIdle /\ WcIdle /\ CkIdle /\ IgIdle /\ VlIdle /\ EmIdle /\ SdIdle /\ CcIdle

NextBatch == StreamVerse \/ ReturnReport

SpecBatch == InitBatch /\ [][NextBatch]_vars

InitLocation == VlInit /\ NormIdle /\ LcIdle /\ AnIdle /\ AbIdle /\ AvIdle /\ WcIdle /\ CkIdle /\ IgIdle /\ BtIdle /\ EmIdle /\ SdIdle /\ CcIdle

NextLocation == MakeLocation \/ LocationFromString \/ NextVerse \/ PreviousVerse

SpecLocation == InitLocation /\ [][NextLocation]_vars

InitMatcher == EmInit /\ NormIdle /\ LcIdle /\ AnIdle /\ AbIdle /\ AvIdle /\ WcIdle /\ CkIdle /\ IgIdle /\ BtIdle /\ VlIdle /\ SdIdle /\ CcIdle

NextMatcher == Matches \/ ExtractPrefix

SpecMatcher == InitMatcher /\ [][NextMatcher]_vars

InitSeed == SdInit /\ NormIdle /\ LcIdle /\ AnIdle /\ AbIdle /\ AvIdle /\ WcIdle /\ CkIdle /\ IgIdle /\ BtIdle /\ VlIdle /\ EmIdle /\ CcIdle

NextSeed == ExtractVerse \/ ComputeSurahAggregates \/ InsertRows \/ ReadVerse \/ ReadSurah

SpecSeed == InitSeed /\ [][NextSeed]_vars

InitConcurrent == CcInit /\ NormIdle /\ LcIdle /\ AnIdle /\ AbIdle /\ AvIdle /\ WcIdle /\ CkIdle /\ IgIdle /\ BtIdle /\ VlIdle /\ EmIdle /\ SdIdle

NextConcurrent == Schedule

SpecConcurrent == InitConcurrent /\ [][NextConcurrent]_vars

(***************************************************************************)
(* Properties of ArabicNormalizer (under SpecNormalizer).                  *)
(***************************************************************************)
\* position of a level in the declared order NONE < ... < FULL
LevelIndex(level) == CHOOSE i \in 1..Len(NormalizationLevel) : NormalizationLevel[i] = level

\* the one step that the level at position i adds
LevelStep(i, text) ==
    CASE i = 1 -> text
      [] i = 2 -> remove_tashkeel(text)
      [] i = 3 -> unify_hamza(text)
      [] i = 4 -> unify_alif(text)
      [] i = 5 -> unify_ya(text)
      [] i = 6 -> full_normalize(text)

\* the steps of the levels at positions 1..n, applied in increasing order
RECURSIVE Cascade(_, _)
Cascade(text, n) == IF n = 0 THEN text ELSE LevelStep(n, Cascade(text, n - 1))

\* C1: normalize(t, L) is the result of applying, in increasing level order,
\* the step of every level up to and including L, and no step of a level
\* above L.
C1_NormalizeIsCascade ==
    norm_pc \in {"done", "again"} =>
        norm_result = Cascade(norm_text, LevelIndex(norm_level))

\* C2: normalize is idempotent at every level:
\* normalize(normalize(t, L), L) = normalize(t, L).
C2_Idempotent == norm_pc = "again" => norm_again = norm_result

\* normalize has been applied twice, at a level where it changed the text
C2_Witness ==
    /\ norm_pc = "again"
    /\ norm_level = YA_UNIFIED
    /\ Len(norm_text) = 2
    /\ norm_result # norm_text
    /\ Len(norm_result) = 2

\* C3: for every level L below the level L' of the call, the text returned
\* at L' is no longer than the text normalize returns at L.
C3_LengthMonotone ==
    norm_pc \in {"done", "again"} =>
        \A i \in 1..Len(NormalizationLevel) :
            i < LevelIndex(norm_level) =>
                Len(norm_result) <= Len(normalize(norm_text, NormalizationLevel[i]))

\* the characters some step of the FULL level removes or replaces
FullyNormalizedAway ==
    TASHKEEL \cup {HAMZA_MAP[i][1] : i \in DOMAIN HAMZA_MAP}
        \cup {ALIF_MAP[i][1] : i \in DOMAIN ALIF_MAP}
        \cup {YA_MAP[i][1] : i \in DOMAIN YA_MAP}
        \cup {TATWEEL} \cup SMALL_LETTERS \cup WAQF_SIGNS

\* C26: the text returned by normalize(t, FULL) contains no diacritic of
\* TASHKEEL, no key of HAMZA_MAP, ALIF_MAP or YA_MAP, no tatweel and no
\* character of SMALL_LETTERS or WAQF_SIGNS.
C26_FullLeavesNoVariant ==
    (norm_pc \in {"done", "again"} /\ norm_level = FULL) =>
        \A i \in 1..Len(norm_result) : norm_result[i] \notin FullyNormalizedAway

(***************************************************************************)
(* Properties of LetterCounter (under SpecLetters).                        *)
(***************************************************************************)
\* number of positions of text holding a character of chars
NumIn(text, chars) == Cardinality({i \in 1..Len(text) : text[i] \in chars})

\* an override when it is given, the method's table entry otherwise
Resolved(override, entry) == IF override = None THEN entry ELSE override[1]

\* the count the rules of section 4.1 give
RuleCount(text, method, wasla, khanjariyya) ==
    NumIn(text, ARABIC_LETTERS)
    + (IF Resolved(wasla, method_rules[method][1]) THEN NumIn(text, {ALIF_WASLA}) ELSE 0)
    + (IF Resolved(khanjariyya, method_rules[method][2])
       THEN NumIn(text, {ALIF_KHANJARIYYA}) ELSE 0)

\* C4: the buckets of get_letter_frequency(t, normalize_variants=True) sum
\* to count_letters(t), whatever the inclusion settings of the count, the
\* default ones included.
C4_FrequencySumIsCount ==
    ({"count_letters", "get_letter_frequency"} \subseteq lc_calls /\ lc_normalize) =>
        SumValues(lc_freq) = lc_count

\* C5: with no overrides, count(NO_WASLA) <= count(TRADITIONAL) <=
\* count(UTHMANI_FULL) on every text.
C5_MethodOrdering ==
    ("count_letters" \in lc_calls /\ lc_wasla = None /\ lc_khanjariyya = None) =>
        /\ lc_count = count_letters(lc_text, lc_method, None, None)
        /\ count_letters(lc_text, NO_WASLA, None, None)
              <= count_letters(lc_text, TRADITIONAL, None, None)
        /\ count_letters(lc_text, TRADITIONAL, None, None)
              <= count_letters(lc_text, UTHMANI_FULL, None, None)

\* a count without overrides of a text holding both special glyphs
C5_Witness ==
    /\ "count_letters" \in lc_calls
    /\ lc_wasla = None /\ lc_khanjariyya = None
    /\ lc_method = TRADITIONAL
    /\ NumIn(lc_text, {ALIF_WASLA}) = 1
    /\ NumIn(lc_text, {ALIF_KHANJARIYYA}) = 1
    /\ lc_count = 1

\* C7: for every method and every pair of overrides, count_letters (and the
\* total of count_letters_detailed) is the number of base letters, plus the
\* Alif Wasla when the resolved wasla flag is true, plus the superscript
\* Alif when the resolved khanjariyya flag is true.
C7_CountFollowsResolvedRules ==
    /\ "count_letters" \in lc_calls =>
          lc_count = RuleCount(lc_text, lc_method, lc_wasla, lc_khanjariyya)
    /\ "count_letters_detailed" \in lc_calls =>
          /\ lc_detailed.total = RuleCount(lc_text, lc_method, lc_wasla, lc_khanjariyya)
          /\ lc_detailed.wasla_included = Resolved(lc_wasla, method_rules[lc_method][1])
          /\ lc_detailed.khanjariyya_included =
                Resolved(lc_khanjariyya, method_rules[lc_method][2])

\* both overrides go against the method's table entry, on a text holding
\* both special glyphs
C7_Witness ==
    /\ {"count_letters", "count_letters_detailed"} \subseteq lc_calls
    /\ lc_method = TRADITIONAL
    /\ lc_wasla = Some(FALSE) /\ lc_khanjariyya = Some(TRUE)
    /\ NumIn(lc_text, {ALIF_WASLA}) = 1
    /\ NumIn(lc_text, {ALIF_KHANJARIYYA}) = 1
    /\ lc_count = 1

(***************************************************************************)
(* Properties of AnalyzerService.count_letters (under SpecAnalyzer).       *)
(***************************************************************************)
\* the last call returned a result (it did not raise)
Returned == an_call.via # "none" /\ "error" \notin DOMAIN an_ret

\* the text of the last call's scope
CallText == get_text(an_call.surah, an_call.verse, an_call.script).text

\* C6: a letter count requested with all-default arguments, through
\* AnalyzerService.count_letters or the endpoint, counts every Alif Wasla
\* and no superscript Alif.
C6_DefaultCountsWaslaOnly ==
    (Returned /\ an_call.all_default) =>
        an_ret.count = NumIn(CallText, ARABIC_LETTERS \cup {ALIF_WASLA})

\* C8: every call returns the count of its own scope under its own
\* configuration (script, count_alif_wasla, count_alif_khanjariyya), also
\* when earlier calls stored results in the shared cache.
C8_CallGetsOwnResult ==
    Returned =>
        /\ an_ret.count = count_letters(CallText, TRADITIONAL,
                                        Some(an_call.count_alif_wasla),
                                        Some(an_call.count_alif_khanjariyya))
        /\ an_ret.scope = [surah |-> an_call.surah, verse |-> an_call.verse,
                           script |-> an_call.script]
        /\ an_ret.methodology = methodology(an_call.count_alif_wasla,
                                            an_call.count_alif_khanjariyya)

(***************************************************************************)
(* Properties of AbjadCalculator (under SpecAbjad).                        *)
(***************************************************************************)
\* the families as the normalizer's tables and the claim list them
AlifFamily == {1575, 1571, 1573, 1570, 1649}

HamzaFamily == {1569, 1572}

YaFamily == {1610, 1609}

YaHamza == 1574

\* the values section 4.3 allows for a glyph of the three families
FamilyValues(glyph) ==
    IF glyph \in AlifFamily \cup HamzaFamily THEN {1}
    ELSE IF glyph \in YaFamily THEN {10}
    ELSE {1, 10}

FamilyGlyphs == AlifFamily \cup HamzaFamily \cup YaFamily \cup {YaHamza}

\* C9: under both systems get_value returns a value for every Alif-, Hamza-
\* and Ya-family glyph (1, 1, 10; 1 or 10 for Ya-with-Hamza), and calculate
\* adds exactly that value for each such glyph of the text.
C9_FamilyGlyphValues ==
    /\ ("get_value" \in ab_calls /\ ab_letter \in FamilyGlyphs) =>
          /\ ab_got # None
          /\ ab_got[1] \in FamilyValues(ab_letter)
    /\ "calculate" \in ab_calls =>
          /\ "error" \notin DOMAIN ab_value
          /\ NumIn(ab_text, FamilyGlyphs) =
                Cardinality({i \in 1..Len(ab_value.letter_breakdown) :
                                ab_value.letter_breakdown[i][1] \in FamilyGlyphs})
          /\ \A i \in 1..Len(ab_value.letter_breakdown) :
                ab_value.letter_breakdown[i][1] \in FamilyGlyphs =>
                    ab_value.letter_breakdown[i][2]
                        \in FamilyValues(ab_value.letter_breakdown[i][1])

\* the characters of the text that have a value, each with its contribution
ExpectedBreakdown(text, system, include) ==
    LET values == values_of(system)
        valued(c) == c \in DOMAIN values \/ (include /\ c = ALIF_KHANJARIYYA)
        kept == SelectSeq(text, valued)
    IN  [i \in 1..Len(kept) |->
            <<kept[i], IF kept[i] = ALIF_KHANJARIYYA THEN 1 ELSE values[kept[i]]>>]

\* C10: calculate never fails; its breakdown lists, in text order, exactly
\* the characters with a table value (plus each superscript Alif with
\* contribution 1 when the flag is true), and value is the sum of the listed
\* contributions.
C10_CalculateBreakdown ==
    "calculate" \in ab_calls =>
        /\ "error" \notin DOMAIN ab_value
        /\ ab_value.letter_breakdown = ExpectedBreakdown(ab_text, ab_system, ab_include)
        /\ ab_value.value = SumBreakdown(ab_value.letter_breakdown)
        /\ ab_value.system = (IF ab_system = None THEN MASHRIQI ELSE ab_system[1])

\* a text of a counted superscript Alif and an unmapped character
C10_Witness ==
    /\ "calculate" \in ab_calls
    /\ ab_include
    /\ NumIn(ab_text, {ALIF_KHANJARIYYA}) = 1
    /\ NumIn(ab_text, {32}) = 1
    /\ "error" \notin DOMAIN ab_value
    /\ ab_value.value = 1
    /\ Len(ab_value.letter_breakdown) = 1

(***************************************************************************)
(* Properties of AbjadValue and the numeric operations (SpecAbjadValue).   *)
(***************************************************************************)
\* the contributions of a breakdown added up, by position
RECURSIVE SumUpTo(_, _)
SumUpTo(breakdown, n) == IF n = 0 THEN 0 ELSE SumUpTo(breakdown, n - 1) + breakdown[n][2]

\* C11: constructing an AbjadValue succeeds exactly when value >= 0 and the
\* contributions of letter_breakdown sum to value; otherwise it raises and
\* no object exists; the object holds the value and the breakdown as given.
C11_ConstructionValidates ==
    "AbjadValue" \in av_calls =>
        IF av_value >= 0 /\ SumUpTo(av_breakdown, Len(av_breakdown)) = av_value
        THEN /\ "error" \notin DOMAIN av_obj
             /\ av_obj.value = av_value
             /\ av_obj.letter_breakdown = av_breakdown
        ELSE av_obj = [error |-> "ValueError"]

\* a breakdown that does not sum to a non-negative value was rejected
C11_Witness ==
    /\ "AbjadValue" \in av_calls
    /\ av_value = 100
    /\ av_breakdown = << <<1594, 99>>, <<1594, -1>> >>
    /\ av_obj = [error |-> "ValueError"]

\* sum of the decimal digits of n
RECURSIVE DigitSum(_)
DigitSum(n) == IF n < 10 THEN n ELSE (n % 10) + DigitSum(n \div 10)

\* the digits summed again and again until one digit remains
RECURSIVE IteratedDigitSum(_)
IteratedDigitSum(n) == IF n < 10 THEN n ELSE IteratedDigitSum(DigitSum(n))

\* C12: for n >= 0, AbjadCalculator.digital_root(n) and AbjadValue.digital_root()
\* of an object of value n equal the iterated digit sum of n (0 for 0).
C12_DigitalRootIsDigitSum ==
    /\ ("digital_root" \in av_calls /\ av_value >= 0) =>
          av_root = IteratedDigitSum(av_value)
    /\ "obj.digital_root" \in av_calls =>
          av_obj_root = IteratedDigitSum(av_obj.value)

\* both digital roots taken of 199, whose digits must be summed three times
C12_Witness ==
    /\ {"digital_root", "obj.digital_root"} \subseteq av_calls
    /\ av_value = 199
    /\ av_obj.value = 199
    /\ av_root = 1
    /\ av_obj_root = 1

IsPrimeNumber(p) == p >= 2 /\ \A q \in 2..(p - 1) : p % q # 0

RECURSIVE Product(_)
Product(factors) == IF factors = <<>> THEN 1 ELSE Head(factors) * Product(Tail(factors))

\* C13: factorize(n) returns the empty list for n < 2 and, for n >= 2, a
\* non-decreasing list of primes whose product is n.
C13_FactorizeIsPrimeFactorization ==
    "factorize" \in av_calls =>
        IF av_value < 2 THEN av_factors = <<>>
        ELSE /\ Product(av_factors) = av_value
             /\ \A i \in 1..Len(av_factors) : IsPrimeNumber(av_factors[i])
             /\ \A i \in 1..(Len(av_factors) - 1) : av_factors[i] <= av_factors[i + 1]

\* 180 = 2 * 2 * 3 * 3 * 5
C13_Witness ==
    /\ "factorize" \in av_calls
    /\ av_value = 180
    /\ av_factors = <<2, 2, 3, 3, 5>>

(***************************************************************************)
(* Properties of WordCounter (under SpecWords).                            *)
(***************************************************************************)
\* C14: count_words on the space-joined tokens of count_words(t) returns the
\* same token sequence and the same count as count_words(t).
C14_CountWordsIdempotent ==
    "cleaned" \in wc_calls =>
        /\ wc_again.words = wc_result.words
        /\ wc_again.count = wc_result.count

\* a text with the same mark twice was counted, joined and counted again
C14_Witness ==
    /\ "cleaned" \in wc_calls
    /\ wc_text = <<1757, 1576, 1757, 1576>>
    /\ wc_result.words = << <<1576>>, <<1576>> >>
    /\ wc_again.count = 2

\* the removal entries of a decision log
Removals(decisions) == SelectSeq(decisions, LAMBDA e : e[1] = "Removed")

\* the positions of a text that hold a non-word mark: the substitutions made
MarkPositions(text) == {i \in 1..Len(text) : text[i] \in NON_WORD_CHARS}

\* the distinct non-word marks of a text
MarksIn(text) == {text[i] : i \in MarkPositions(text)}

\* C15 as stated: the number of removal entries equals the number of mark
\* substitutions made in the text, no removal entry names a mark absent from
\* the text, and the removal entries are followed by one final entry giving
\* the raw token count, which is the returned count.
C15_EntryPerSubstitution ==
    "count_words" \in wc_calls =>
        LET removals == Removals(wc_result.decisions)
        IN  /\ Len(removals) = Cardinality(MarkPositions(wc_text))
            /\ \A i \in 1..Len(removals) : removals[i][2] \in MarksIn(wc_text)
            /\ wc_result.decisions = removals \o <<SplitInto(wc_result.count)>>

\* C15 amended: there is one removal entry per distinct mark occurring in the
\* text (each replace call substitutes every occurrence of its mark), no
\* removal entry names a mark absent from the text, and the removal entries
\* are followed by one final entry giving the raw token count, which is the
\* returned count.
C15_EntryPerDistinctMark ==
    "count_words" \in wc_calls =>
        LET removals == Removals(wc_result.decisions)
        IN  /\ Len(removals) = Cardinality(MarksIn(wc_text))
            /\ {removals[i][2] : i \in 1..Len(removals)} = MarksIn(wc_text)
            /\ wc_result.decisions = removals \o <<SplitInto(wc_result.count)>>

\* U+06DD occurs twice and U+06D6 once: three substitutions, two entries
C15_Witness ==
    /\ "count_words" \in wc_calls
    /\ wc_text = <<1757, 1576, 1757, 1750>>
    /\ Len(Removals(wc_result.decisions)) = 2
    /\ wc_result.decisions[3] = SplitInto(1)

\* C16: any two count_words invocations on the same text and arguments return
\* equal results, the order of the decision-log entries included.
C16_Deterministic ==
    "repeat" \in wc_calls => wc_repeat = wc_result

(***************************************************************************)
(* Properties of TextChecksum (under SpecChecksum).                        *)
(***************************************************************************)
\* C17: a checksum computed of text t under a supported algorithm verifies t
\* and verifies no other text, the hash being injective; verify hashes with
\* the algorithm of the checksum.
C17_VerifyAcceptsOnlyItsText ==
    "verify" \in ck_calls => ck_verified = [returned |-> (ck_probe = ck_text)]

\* a sha3_512 checksum of an Arabic letter was verified against that letter
C17_Witness ==
    /\ "verify" \in ck_calls
    /\ ck_algorithm = sha3_512
    /\ ck_text = <<1576>>
    /\ ck_probe = <<1576>>
    /\ ck_verified = [returned |-> TRUE]

\* C18: for every checksum c that can be constructed, from_string(str(c))
\* succeeds and has the algorithm and the value of c.
C18_StringRoundTrip ==
    "from_string" \in ck_calls =>
        /\ "error" \notin DOMAIN ck_restored
        /\ ck_restored.algorithm = ck_source.algorithm
        /\ ck_restored.value = ck_source.value

\* a hand-made checksum whose value holds an underscore made the round trip
C18_Witness ==
    /\ "from_string" \in ck_calls
    /\ ck_source = [algorithm |-> sha3_256, value |-> <<102, 95, 102>>]
    /\ ck_restored = ck_source

(***************************************************************************)
(* Properties of IntegrityGuard (under SpecGuard).                         *)
(***************************************************************************)
\* C19: verify_text returns True exactly when the checksum of the text under
\* expected.algorithm equals expected; on a mismatch it raises
\* IntegrityViolationError with expected, actual and context when the guard
\* is fail-fast, and returns False without raising otherwise.
C19_VerifyTextPolicy ==
    "verify_text" \in ig_calls =>
        LET actual == compute(ig_text, ig_expected.algorithm)
        IN  IF actual = ig_expected THEN ig_outcome = [returned |-> TRUE]
            ELSE IF ig_guard.fail_fast
                 THEN ig_outcome = IntegrityViolationError(ig_expected, actual, ig_context)
                 ELSE ig_outcome = [returned |-> FALSE]

(***************************************************************************)
(* Properties of the batch integrity check (under SpecBatch).              *)
(***************************************************************************)
\* the stored checksum of row i is not the checksum of its text
Mismatching(i) ==
    from_string(bt_rows[i].checksum)
        # compute(bt_rows[i].text_uthmani, from_string(bt_rows[i].checksum).algorithm)

\* the locations of the mismatching rows, in stream order
MismatchingLocations ==
    LET locations == [i \in 1..Len(bt_rows) |-> <<bt_rows[i].surah_number, bt_rows[i].verse_number>>]
    IN  SelectSeq(locations, LAMBDA l : Mismatching(l[2]))

\* C20: when failing on integrity errors is configured, the batch halts at
\* the first mismatching verse: no later verse is checked and no report is
\* returned; otherwise every verse is checked and the report lists exactly
\* the mismatching verses, in order, and is valid only when there are none.
C20_BatchPolicy ==
    IF bt_setting
    THEN /\ \A i \in 1..bt_total : Mismatching(i) => bt_total = i
         /\ (\E i \in 1..bt_total : Mismatching(i)) => bt_report = NoReport
    ELSE bt_pc = "returned" =>
            /\ bt_report.total_verses = Len(bt_rows)
            /\ bt_report.failed_verses = MismatchingLocations
            /\ bt_report.is_valid = (MismatchingLocations = <<>>)

(***************************************************************************)
(* Properties of VerseLocation (under SpecLocation).                       *)
(***************************************************************************)
\* surah s exists and has a verse v
ValidPair(s, v) ==
    /\ 1 <= s /\ s <= 114
    /\ 1 <= v /\ v <= MAX_VERSES_PER_SURAH[s]

\* the result is a location of that pair when the pair is valid, an error
\* otherwise
BuiltExactlyWhenValid(result, s, v) ==
    IF ValidPair(s, v) THEN result = [surah_number |-> s, verse_number |-> v]
    ELSE result = [error |-> "ValueError"]

\* the string is one of the well-formed ways of writing the pair
WellFormed(string) == Len(split_colons(string, <<>>, <<>>)) = 2 /\ 120 \notin {string[i] : i \in 1..Len(string)}

\* C21: VerseLocation(s, v) is constructed exactly when 1 <= s <= 114 and
\* 1 <= v <= MAX_VERSES_PER_SURAH[s], directly and through from_string; every
\* other pair, and every malformed string, is rejected with an error.
C21_ConstructibleExactlyWhenValid ==
    /\ "VerseLocation" \in vl_calls => BuiltExactlyWhenValid(vl_made, vl_surah, vl_verse)
    /\ "from_string" \in vl_calls =>
          IF WellFormed(vl_string) THEN BuiltExactlyWhenValid(vl_parsed, vl_surah, vl_verse)
          ELSE vl_parsed = [error |-> "ValueError"]

\* verse 4 of surah 103, which has three verses, was rejected both ways
C21_Witness ==
    /\ {"VerseLocation", "from_string"} \subseteq vl_calls
    /\ vl_surah = 103
    /\ vl_verse = 4
    /\ vl_string = <<49, 48, 51, 58, 52>>
    /\ vl_made = [error |-> "ValueError"]
    /\ vl_parsed = [error |-> "ValueError"]

\* a navigation result is None or a valid location of the surah it started in
ValidStep(call) ==
    \/ call.ret = None
    \/ /\ "error" \notin DOMAIN call.ret[1]
       /\ call.ret[1].surah_number = call.at.surah_number
       /\ ValidPair(call.ret[1].surah_number, call.ret[1].verse_number)

\* C22: next_verse and previous_verse yield only valid locations of the same
\* surah or None; next_verse is None exactly at the last verse and otherwise
\* verse + 1, previous_verse is None exactly at the first verse and otherwise
\* verse - 1, and previous_verse undoes next_verse.
C22_NavigationStaysValid ==
    /\ \A i \in 1..Len(vl_hist) :
          LET call == vl_hist[i]
          IN  /\ ValidStep(call)
              /\ call.op = "next" =>
                    /\ (call.ret = None) = is_last_verse(call.at)
                    /\ call.ret # None => call.ret[1].verse_number = call.at.verse_number + 1
              /\ call.op = "previous" =>
                    /\ (call.ret = None) = is_first_verse(call.at)
                    /\ call.ret # None => call.ret[1].verse_number = call.at.verse_number - 1
    /\ (/\ Len(vl_hist) = 2
        /\ vl_hist[1].op = "next" /\ vl_hist[1].ret # None
        /\ vl_hist[2].op = "previous") => vl_hist[2].ret = Some(vl_hist[1].at)

\* next_verse at the last verse of surah 103 gave None after a step back and
\* forth
C22_Witness ==
    /\ Len(vl_hist) = 2
    /\ vl_hist[1] = [op |-> "next", at |-> [surah_number |-> 103, verse_number |-> 2],
                     ret |-> Some([surah_number |-> 103, verse_number |-> 3])]
    /\ vl_hist[2].op = "next"
    /\ vl_hist[2].ret = None

(***************************************************************************)
(* Properties of EntityVariantMatcher (under SpecMatcher).                 *)
(***************************************************************************)
\* two strings are the same modulo diacritics
SameModuloDiacritics(a, b) == strip_tashkeel(a) = strip_tashkeel(b)

\* C23: matches(c) is true exactly when c without diacritics equals some
\* generated form without diacritics; in particular it is true for the word
\* itself and for every single or combined clitic prefix before the word,
\* whatever diacritics the prefix or the candidate carry.
C23_MatchesModuloDiacritics ==
    "matches" \in em_calls =>
        /\ em_matched = (\E form \in generate_all_forms(em_base) :
                            SameModuloDiacritics(em_word, form))
        /\ (\E p \in {<<>>} \cup ALL_PREFIXES :
                SameModuloDiacritics(em_word, p \o em_base)) => em_matched

\* matches was called for a combined prefix before the word, written with a
\* diacritic the generated forms do not carry
C23_Witness ==
    /\ "matches" \in em_calls
    /\ em_matched
    /\ em_word \notin generate_all_forms(em_base)
    /\ \E p \in COMBINED_PREFIXES : SameModuloDiacritics(em_word, p \o em_base)

\* the prefixes, diacritized or stripped, that begin the candidate and leave
\* the canonical word modulo diacritics
QualifyingPrefixes(w, c) ==
    {p \in ALL_PREFIXES \cup {strip_tashkeel(q) : q \in ALL_PREFIXES} :
        /\ startswith(c, p)
        /\ SameModuloDiacritics(slice_from(c, Len(p)), w)}

\* C24: when some prefix of the clitic set begins the candidate and leaves a
\* remainder equal to the canonical word modulo diacritics, extract_prefix
\* returns the longest such prefix together with that remainder.
C24_LongestPrefixExtracted ==
    ("extract_prefix" \in em_calls /\ QualifyingPrefixes(em_base, em_word) # {}) =>
        \E p \in QualifyingPrefixes(em_base, em_word) :
            /\ \A q \in QualifyingPrefixes(em_base, em_word) : Len(q) <= Len(p)
            /\ em_extracted = <<p, slice_from(em_word, Len(p))>>

\* extract_prefix was called for a candidate that two prefixes of different
\* lengths qualify for, and for one that begins with a combined prefix
C24_Witness ==
    /\ "extract_prefix" \in em_calls
    /\ \/ \E p, q \in QualifyingPrefixes(em_base, em_word) : Len(p) < Len(q)
       \/ /\ em_extracted # None
          /\ em_extracted[1] \in COMBINED_PREFIXES

\* C29: extract_prefix returns None exactly when matches is false; a returned
\* pair (p, r) concatenates to the candidate and r is the canonical word
\* modulo diacritics, so the empty prefix is returned only for the canonical
\* word itself modulo diacritics.
C29_ExtractPrefixSplitsCandidate ==
    "extract_prefix" \in em_calls =>
        /\ (em_extracted = None) = ~EntityVariantMatcher_matches(em_matcher, em_word)
        /\ em_extracted # None =>
              /\ em_extracted[1] \o em_extracted[2] = em_word
              /\ SameModuloDiacritics(em_extracted[2], em_base)

(***************************************************************************)
(* Properties of IntegrityGuard.verify_full_quran (under SpecGuard).       *)
(***************************************************************************)
\* C27: verify_full_quran returns True only for a text whose SHA-256 digest
\* equals the configured expected checksum; with no expected checksum
\* configured it returns True for every text and never raises, with and
\* without fail-fast.
C27_FullQuranCheck ==
    "verify_full_quran" \in ig_calls =>
        /\ ig_configured = <<>> => ig_full = [returned |-> TRUE]
        /\ (ig_configured # <<>> /\ ig_full = [returned |-> TRUE]) =>
              ig_configured = hexdigest(sha256, encode_utf8(ig_text))

\* verify_full_quran accepted a text against a configured checksum
C27_Witness ==
    /\ "verify_full_quran" \in ig_calls
    /\ ig_configured # <<>>
    /\ ig_text # <<>>
    /\ ig_full = [returned |-> TRUE]

(***************************************************************************)
(* Properties of WordCounter.get_word_positions (under SpecWords).         *)
(***************************************************************************)
\* text[start:end] of Python, the indices counted from 0
Slice(text, start, end) == SubSeq(text, start + 1, end)

\* C28: the words reported by get_word_positions(t) are the words of
\* split_words(t), in order, and every reported (word, start, end) satisfies
\* t[start:end] = word; texts with line feeds, tabs and zero-width spaces
\* included.
C28_PositionsAreTheWords ==
    "get_word_positions" \in wc_calls =>
        /\ [i \in 1..Len(wc_positions) |-> wc_positions[i][1]] = split_words(wc_text, wc_order)
        /\ \A i \in 1..Len(wc_positions) :
              Slice(wc_text, wc_positions[i][2], wc_positions[i][3]) = wc_positions[i][1]

(***************************************************************************)
(* Properties of the seeded data (under SpecSeed).                         *)
(***************************************************************************)
\* C30: what the seeding script stores passes verification when read back:
\* every stored verse and surah checksum string is accepted by
\* TextChecksum.from_string, Verse.verify_integrity is True for the stored
\* Uthmani text, and Surah.verify_integrity is True for a surah of two or
\* more verses.
C30_SeededDataVerifies ==
    sd_pc = "stored" =>
        /\ \A i \in 1..Len(sd_verses) : "error" \notin DOMAIN from_string(sd_verses[i].checksum)
        /\ "error" \notin DOMAIN from_string(sd_surah[1])
        /\ \A i \in 1..Len(sd_read) : sd_read[i] = [returned |-> TRUE]
        /\ (sd_surah_read # NotCalled /\ Len(sd_verses) >= 2) =>
              sd_surah_read = [returned |-> TRUE]

(***************************************************************************)
(* Properties of concurrent calls (under SpecConcurrent).                  *)
(***************************************************************************)
\* what the call of a frame returns when it runs alone
RunAlone(frame, order) ==
    IF frame.service = "count_words" THEN count_words(frame.text, TRUE, "", order)
    ELSE IF frame.service = "calculate" THEN calculate(frame.text, None, TRUE)
    ELSE IF frame.service = "count_letters"
         THEN count_letters(frame.text, UTHMANI_FULL, None, None)
    ELSE IF frame.service = "normalize" THEN normalize(frame.text, FULL)
    ELSE EntityVariantMatcher_matches(EntityVariantMatcher(SharedBaseWord), frame.text)

\* C25: under every interleaving of concurrent calls on shared LetterCounter,
\* WordCounter, AbjadCalculator, ArabicNormalizer and EntityVariantMatcher
\* instances, no call changes state another call can see, and every call
\* returns what it returns when run alone.
C25_CallsDoNotInterfere ==
    /\ cc_shared = SharedInstances
    /\ \A t \in Threads :
          cc_frame[t].done => cc_frame[t].result = RunAlone(cc_frame[t], cc_order)

\* two different calls on the same service have both returned after running
\* interleaved, each having gone through rounds of its loop
C25_Witness ==
    /\ cc_overlap
    /\ \A t \in Threads : cc_frame[t].done /\ cc_frame[t].round > 1
    /\ cc_frame[1].service = cc_frame[2].service
    /\ cc_frame[1].text # cc_frame[2].text

=============================================================================
